---- MODULE Spec2Model ----
(***************************************************************************)
(* Model of the announcement-to-order bot (package bnc_anc_pkg).           *)
(*                                                                         *)
(*   Spec   the split-order adapter KuCoinFuturesClient: trade() calls,    *)
(*          the order-update watcher _watch_orders_ws and the private      *)
(*          order stream of the venue.                                     *)
(*   SpecH  one handle_payload call with the trade tasks it launches.      *)
(*   SpecF  the feed loop run_ws with the handle_payload tasks it spawns.  *)
(*   SpecB  one bracket-order call place_market_with_attached_tpsl.        *)
(*   SpecQ  one REST request _req of an adapter.                           *)
(*   SpecM  startup: main() and build_exchanges().                         *)
(*   SpecT  decide_trade_from_title on the text of a title.                *)
(*                                                                         *)
(* Every asyncio task is a process whose position is the await it is       *)
(* suspended at; one action runs a task from one suspension to the next.   *)
(***************************************************************************)
EXTENDS Integers, Sequences, FiniteSets, TLC

\* ------------------------------------------------------------------ bounds
MaxTrades  == 1      \* trade() calls made on the adapter in Spec
EnsureCap  == 2      \* _ensure_ws calls counted
CancelCap  == 2      \* cancel requests counted per order id (CancelCap: that many or more)
MaxEvents  == 2      \* DATA messages the feed dispatches in SpecF
MaxFrames  == 3      \* frames the feed reads in SpecF

\* ------------------------------------------------------- program constants
PollAttempts == 60   \* for _ in range(60)

\* ------------------------------------------------------------------ values
HandlerIds == 1..MaxEvents             \* handle_payload tasks
TaskIds  == 1..(4 * MaxEvents)           \* trade tasks
Legs     == {"tp", "sl"}
NoId     == <<0, "none">>
ExtId    == <<0, "ext">>                 \* an order this adapter never placed
OrderIds == (TaskIds \X Legs) \cup {ExtId}
NoErr    == "ok"

Sibling(o) == IF o[2] = "tp" THEN <<o[1], "sl">> ELSE <<o[1], "tp">>

VARIABLES
    tasks,        \* trade task -> its record (position, in-flight response)
    order_pairs,  \* KuCoinFuturesClient._order_pairs
    ws,           \* KuCoinFuturesClient._ws_task: the watcher's position
    placed,       \* venue side: protective orders the venue accepted
    cancels,      \* venue side: cancel requests received, per order id
    observed,     \* order ids the watcher received a terminal update for
    lastmsg,      \* the terminal update the latest step of the watcher handled
    exchanges,    \* the venue list handed to run_ws / handle_payload
    config,       \* DECISION_CONFIG
    handlers,     \* handle_payload task -> its record
    feed,         \* run_ws: its position
    quote,        \* one computation of the protective prices: inputs and result
    bracket,      \* one place_market_with_attached_tpsl call of KcFutREST
    rest,         \* one _req call of an adapter: the response and what it did
    boot,         \* main(): the environment and how far startup got
    dec           \* one decide_trade_from_title call: the title and the result

unitvars == <<bracket, rest, boot, dec>>
hfvars == <<exchanges, config, quote, handlers, feed, unitvars>>
kcvars == <<tasks, order_pairs, ws, placed, cancels, observed, lastmsg>>
vars   == <<tasks, order_pairs, ws, placed, cancels, observed, lastmsg,
           exchanges, config, quote, handlers, feed, bracket, rest, boot, dec>>

\* ---------------------------------------------------------- venue responses
\* What a REST call of the split-order venue can come back with: an HTTP
\* status and the code embedded in a JSON body ("none": the body has none).
KcResponses == { [status |-> 200, code |-> "200000"],
                 [status |-> 200, code |-> "400100"],
                 [status |-> 500, code |-> "none"] }

\* Replies to an order submission: the same, and whether data.orderId is there.
OrderResponses == { [status |-> 200, code |-> "200000", hasId |-> TRUE],
                    [status |-> 200, code |-> "200000", hasId |-> FALSE],
                    [status |-> 200, code |-> "400100", hasId |-> FALSE],
                    [status |-> 500, code |-> "none",   hasId |-> FALSE] }

\* Replies of the open-position endpoint: entry price and size, 0 when absent.
Positions == { [price |-> 0, qty |-> 0], [price |-> 100, qty |-> 0],
               [price |-> 100, qty |-> 3] }

\* KuCoinFuturesClient._req: raises on a non-2xx status and on an embedded
\* code other than the success sentinel.
ReqRaises(r) == \/ r.status < 200 \/ r.status >= 300
                \/ (r.code # "none" /\ r.code # "200000")

ReqError(r) == IF r.status < 200 \/ r.status >= 300
               THEN "500 Internal Server Error"
               ELSE "KuCoin API error 400100"

\* ------------------------------------------------------------ order stream
Statuses == {"open", "match", "done", "filled", "cancelled", "canceled"}
JunkMsg  == [oid |-> NoId, status |-> "junk"]   \* non-text, bad JSON, other topic
NoMsg    == [oid |-> NoId, term |-> FALSE]

\* the status test of the watcher loop
IsTerminal(status) == status \in {"done", "filled", "match", "cancelled", "canceled"}

Keys(pairs) == {o \in OrderIds : pairs[o] # NoId}

\* dict.pop(oid, None): the value that was stored, and the dict without oid
PopValue(pairs, oid) == IF oid \in OrderIds THEN pairs[oid] ELSE NoId
PopRest(pairs, oid)  == [o \in OrderIds |-> IF o = oid THEN NoId ELSE pairs[o]]

\* One message of the stream, up to the first await of the loop body:
\*   pairs  the mapping afterwards
\*   other  the order a cancel request is sent for (NoId: none)
\*   exc    an exception left the loop body
watch_handle_strict(pairs, m) ==
    IF m.oid = NoId \/ ~IsTerminal(m.status)
    THEN [pairs |-> pairs, other |-> NoId, exc |-> FALSE]
    ELSE IF m.oid \notin Keys(pairs)
    THEN [pairs |-> pairs, other |-> NoId, exc |-> TRUE]
    ELSE [pairs |-> PopRest(pairs, m.oid), other |-> PopValue(pairs, m.oid), exc |-> FALSE]

watch_handle(pairs, m) ==
    IF m.oid = NoId \/ ~IsTerminal(m.status)
    THEN [pairs |-> pairs, other |-> NoId, exc |-> FALSE]
    ELSE [pairs |-> PopRest(pairs, m.oid), other |-> PopValue(pairs, m.oid), exc |-> FALSE]

\* ------------------------------------------------------------- trade tasks
NoReply == [status |-> 0, code |-> "none", hasId |-> FALSE]

\* ex, vi: the venue and its place in the venue list; side: the side handed
\* over by handle_payload; base, h: the base and
\* the handle_payload task it was launched for; at: the await trade() raised
\* at; fin: its place in the order of completions; pc: the await the task is suspended at; polls: position
\* queries answered; inflight: the reply under way to a submitted protective
\* order; err: the exception trade() raised; opened: the entry order was
\* accepted; paired: trade() recorded an OrderPair
IdleTask == [ex |-> "none", base |-> "", side |-> "none", h |-> 0, vi |-> 0, at |-> "none",
             fin |-> 0,
             pc |-> "idle", polls |-> 0, inflight |-> NoReply,
             tp_id |-> NoId, err |-> NoErr, opened |-> FALSE, paired |-> FALSE]

\* the place of the next completion among the completions of trade tasks
NextFin == Cardinality({u \in TaskIds : tasks[u].pc \in {"done", "failed"}}) + 1

Fail(t, e) == [tasks EXCEPT ![t].pc = "failed", ![t].err = e, ![t].inflight = NoReply,
                            ![t].at = tasks[t].pc, ![t].fin = NextFin]

\* KuCoinFuturesClient._ensure_ws
\* pc: where _watch_orders_ws is suspended ("none": _ws_task is None);
\* other: the sibling it is cancelling; live: listener tasks created and not
\* finished; calls: _ensure_ws calls made
NoWatcher == [pc |-> "none", other |-> NoId, live |-> 0, calls |-> 0]

\* _ensure_ws calls so far, counted up to EnsureCap
Called(w) == IF w.calls < EnsureCap THEN w.calls + 1 ELSE w.calls

\* _ensure_ws: a listener is created when there is none, or the last one is
\* done
ensure_ws_always(w) ==
    [pc |-> "geturl", other |-> NoId, calls |-> Called(w),
     live |-> IF w.pc \in {"none", "finished"} THEN 1 ELSE w.live + 1]

ensure_ws(w) == IF w.pc \notin {"none", "finished"} THEN [w EXCEPT !.calls = Called(w)]
                ELSE [pc |-> "geturl", other |-> NoId, calls |-> Called(w), live |-> 1]

\* the venue has the order from the moment it accepts the submission
Accept(set, o, r) == IF ReqRaises(r) THEN set ELSE set \cup {o}

\* a caller invokes trade(); the task runs up to the contract request
CallTrade(t) ==
    /\ t <= MaxTrades
    /\ tasks[t].pc = "idle"
    /\ tasks' = [tasks EXCEPT ![t].pc = "contract", ![t].ex = "kucoin"]
    /\ UNCHANGED <<order_pairs, ws, placed, cancels, observed>>
    /\ lastmsg' = NoMsg
    /\ UNCHANGED hfvars

\* get_contract returns; the market entry order is submitted
TradeContract(t) ==
    /\ tasks[t].pc = "contract"
    /\ \E r \in KcResponses :
          tasks' = IF ReqRaises(r) THEN Fail(t, ReqError(r))
                   ELSE [tasks EXCEPT ![t].pc = "entry"]
    /\ UNCHANGED <<order_pairs, ws, placed, cancels, observed>>
    /\ lastmsg' = NoMsg
    /\ UNCHANGED hfvars

\* the entry order's reply; on success the position poll starts
TradeEntry_andwatch(t) ==
    /\ tasks[t].pc = "entry"
    /\ \E r \in KcResponses :
          /\ tasks' = IF ReqRaises(r) THEN Fail(t, ReqError(r))
                      ELSE [tasks EXCEPT ![t].pc = "poll", ![t].polls = 0, ![t].opened = TRUE]
          /\ ws' = IF ReqRaises(r) THEN ensure_ws(ws) ELSE ws
    /\ UNCHANGED <<order_pairs, placed, cancels, observed>>
    /\ lastmsg' = NoMsg
    /\ UNCHANGED hfvars

TradeEntry(t) ==
    /\ tasks[t].pc = "entry"
    /\ \E r \in KcResponses :
          tasks' = IF ReqRaises(r) THEN Fail(t, ReqError(r))
                   ELSE [tasks EXCEPT ![t].pc = "poll", ![t].polls = 0, ![t].opened = TRUE]
    /\ UNCHANGED <<order_pairs, ws, placed, cancels, observed>>
    /\ lastmsg' = NoMsg
    /\ UNCHANGED hfvars

\* one get_position reply of the poll loop.  With an entry price and a size
\* the task goes on, without suspending, through _ensure_ws to the submission
\* of the take-profit order.
TradePoll_place(t) ==
    /\ tasks[t].pc = "poll"
    /\ \E r \in KcResponses :
          IF ReqRaises(r)
          THEN /\ tasks' = Fail(t, ReqError(r))
               /\ UNCHANGED <<ws, placed>>
          ELSE \E pos \in Positions :
             IF pos.price = 0
             THEN /\ tasks' = IF tasks[t].polls + 1 < PollAttempts
                              THEN [tasks EXCEPT ![t].polls = @ + 1]
                              ELSE [Fail(t, "entry price not found for position")
                                      EXCEPT ![t].polls = tasks[t].polls + 1]
                  /\ ws' = ws
                  /\ placed' = IF tasks[t].polls + 1 < PollAttempts THEN placed
                               ELSE placed \cup {<<t, "tp">>}
             ELSE IF pos.qty = 0
             THEN /\ tasks' = [Fail(t, "position size not found")
                                 EXCEPT ![t].polls = tasks[t].polls + 1]
                  /\ UNCHANGED <<ws, placed>>
             ELSE \E o \in OrderResponses :
                  /\ tasks' = [tasks EXCEPT ![t].pc = "tp", ![t].polls = @ + 1,
                                            ![t].inflight = o]
                  /\ ws' = ensure_ws(ws)
                  /\ placed' = Accept(placed, <<t, "tp">>, o)
    /\ UNCHANGED <<order_pairs, cancels, observed>>
    /\ lastmsg' = NoMsg
    /\ UNCHANGED hfvars

TradePoll_nowatch(t) ==
    /\ tasks[t].pc = "poll"
    /\ \E r \in KcResponses :
          IF ReqRaises(r)
          THEN /\ tasks' = Fail(t, ReqError(r))
               /\ UNCHANGED <<ws, placed>>
          ELSE \E pos \in Positions :
             IF pos.price = 0
             THEN /\ tasks' = IF tasks[t].polls + 1 < PollAttempts
                              THEN [tasks EXCEPT ![t].polls = @ + 1]
                              ELSE [Fail(t, "entry price not found for position")
                                      EXCEPT ![t].polls = tasks[t].polls + 1]
                  /\ UNCHANGED <<ws, placed>>
             ELSE IF pos.qty = 0
             THEN /\ tasks' = [Fail(t, "position size not found")
                                 EXCEPT ![t].polls = tasks[t].polls + 1]
                  /\ UNCHANGED <<ws, placed>>
             ELSE \E o \in OrderResponses :
                  /\ tasks' = [tasks EXCEPT ![t].pc = "tp", ![t].polls = @ + 1,
                                            ![t].inflight = o]
                  /\ ws' = ws
                  /\ placed' = Accept(placed, <<t, "tp">>, o)
    /\ UNCHANGED <<order_pairs, cancels, observed>>
    /\ lastmsg' = NoMsg
    /\ UNCHANGED hfvars

TradePoll(t) ==
    /\ tasks[t].pc = "poll"
    /\ \E r \in KcResponses :
          IF ReqRaises(r)
          THEN /\ tasks' = Fail(t, ReqError(r))
               /\ UNCHANGED <<ws, placed>>
          ELSE \E pos \in Positions :
             IF pos.price = 0
             THEN /\ tasks' = IF tasks[t].polls + 1 < PollAttempts
                              THEN [tasks EXCEPT ![t].polls = @ + 1]
                              ELSE [Fail(t, "entry price not found for position")
                                      EXCEPT ![t].polls = tasks[t].polls + 1]
                  /\ UNCHANGED <<ws, placed>>
             ELSE IF pos.qty = 0
             THEN /\ tasks' = [Fail(t, "position size not found")
                                 EXCEPT ![t].polls = tasks[t].polls + 1]
                  /\ UNCHANGED <<ws, placed>>
             ELSE \E o \in OrderResponses :
                  /\ tasks' = [tasks EXCEPT ![t].pc = "tp", ![t].polls = @ + 1,
                                            ![t].inflight = o]
                  /\ ws' = ensure_ws(ws)
                  /\ placed' = Accept(placed, <<t, "tp">>, o)
    /\ UNCHANGED <<order_pairs, cancels, observed>>
    /\ lastmsg' = NoMsg
    /\ UNCHANGED hfvars

\* the take-profit order's reply; on success the stop-loss order is submitted
TradeTp(t) ==
    /\ tasks[t].pc = "tp"
    /\ IF ReqRaises(tasks[t].inflight)
       THEN /\ tasks' = Fail(t, ReqError(tasks[t].inflight))
            /\ placed' = placed
       ELSE \E o \in OrderResponses :
            /\ tasks' = [tasks EXCEPT ![t].pc = "sl", ![t].inflight = o,
                               ![t].tp_id = IF tasks[t].inflight.hasId
                                            THEN <<t, "tp">> ELSE NoId]
            /\ placed' = Accept(placed, <<t, "sl">>, o)
    /\ UNCHANGED <<order_pairs, ws, cancels, observed>>
    /\ lastmsg' = NoMsg
    /\ UNCHANGED hfvars

Register_oneway(pairs, tp_id, sl_id) ==
    IF tp_id # NoId /\ sl_id # NoId
    THEN [pairs EXCEPT ![tp_id] = sl_id]
    ELSE pairs

\* the two assignments that record an OrderPair
Register(pairs, tp_id, sl_id) ==
    IF tp_id # NoId /\ sl_id # NoId
    THEN [pairs EXCEPT ![tp_id] = sl_id, ![sl_id] = tp_id]
    ELSE pairs

\* the stop-loss order's reply; the pair is recorded and trade() returns
TradeSl(t) ==
    /\ tasks[t].pc = "sl"
    /\ IF ReqRaises(tasks[t].inflight)
       THEN /\ tasks' = Fail(t, ReqError(tasks[t].inflight))
            /\ order_pairs' = order_pairs
       ELSE /\ tasks' = [tasks EXCEPT ![t].pc = "done", ![t].inflight = NoReply,
                               ![t].fin = NextFin,
                               ![t].paired = tasks[t].tp_id # NoId /\ tasks[t].inflight.hasId]
            /\ order_pairs' = Register(order_pairs, tasks[t].tp_id,
                                       IF tasks[t].inflight.hasId
                                       THEN <<t, "sl">> ELSE NoId)
    /\ UNCHANGED <<ws, placed, cancels, observed>>
    /\ lastmsg' = NoMsg
    /\ UNCHANGED hfvars

\* ------------------------------------------------------------- the watcher
\* _get_ws_url returns
WsGetUrl_propagate ==
    /\ ws.pc = "geturl"
    /\ \E r \in KcResponses :
          /\ ws' = [ws EXCEPT !.pc = IF ReqRaises(r) THEN "sleep" ELSE "connect"]
          /\ tasks' = IF ReqRaises(r)
                      THEN [t \in TaskIds |->
                              IF tasks[t].pc \in {"tp", "sl"}
                              THEN Fail(t, ReqError(r))[t] ELSE tasks[t]]
                      ELSE tasks
    /\ UNCHANGED <<order_pairs, placed, cancels, observed>>
    /\ lastmsg' = NoMsg
    /\ UNCHANGED hfvars

WsGetUrl ==
    /\ ws.pc = "geturl"
    /\ \E r \in KcResponses :
          ws' = [ws EXCEPT !.pc = IF ReqRaises(r) THEN "sleep" ELSE "connect"]
    /\ UNCHANGED <<tasks, order_pairs, placed, cancels, observed>>
    /\ lastmsg' = NoMsg
    /\ UNCHANGED hfvars

\* ws_connect returns or raises
WsConnect ==
    /\ ws.pc = "connect"
    /\ \E ok \in BOOLEAN : ws' = [ws EXCEPT !.pc = IF ok THEN "subscribe" ELSE "sleep"]
    /\ UNCHANGED <<tasks, order_pairs, placed, cancels, observed>>
    /\ lastmsg' = NoMsg
    /\ UNCHANGED hfvars

\* send_json(sub) returns or raises
WsSubscribe ==
    /\ ws.pc = "subscribe"
    /\ \E ok \in BOOLEAN : ws' = [ws EXCEPT !.pc = IF ok THEN "listen" ELSE "sleep"]
    /\ UNCHANGED <<tasks, order_pairs, placed, cancels, observed>>
    /\ lastmsg' = NoMsg
    /\ UNCHANGED hfvars

Bump(n) == IF n < CancelCap THEN n + 1 ELSE n

\* messages the venue can push: junk, and a status of an order it holds or of
\* an order of the account this adapter did not place
StreamMsgs == {JunkMsg} \cup
              [oid : placed \cup {ExtId, NoId}, status : Statuses]

\* one message is read and handled up to the cancel request
WsRecv ==
    /\ ws.pc = "listen"
    /\ \E m \in StreamMsgs :
          LET h == watch_handle(order_pairs, m) IN
          /\ lastmsg' = IF IsTerminal(m.status) THEN [oid |-> m.oid, term |-> TRUE] ELSE NoMsg
          /\ order_pairs' = h.pairs
          /\ observed' = IF m.oid \in placed /\ IsTerminal(m.status)
                         THEN observed \cup {m.oid} ELSE observed
          /\ cancels' = IF h.other # NoId /\ ~h.exc
                        THEN [cancels EXCEPT ![h.other] = Bump(@)] ELSE cancels
          /\ ws' = IF h.exc THEN [ws EXCEPT !.pc = "sleep", !.other = NoId]
                   ELSE IF h.other # NoId THEN [ws EXCEPT !.pc = "cancel", !.other = h.other]
                   ELSE ws
    /\ UNCHANGED <<tasks, placed>>
    /\ UNCHANGED hfvars

\* the reply to cancel_order(other)
WsCancel ==
    /\ ws.pc = "cancel"
    /\ \E r \in KcResponses :
          IF ReqRaises(r)
          THEN /\ ws' = [ws EXCEPT !.pc = "sleep", !.other = NoId]
               /\ order_pairs' = order_pairs
          ELSE /\ ws' = [ws EXCEPT !.pc = "listen", !.other = NoId]
               /\ order_pairs' = PopRest(order_pairs, ws.other)
    /\ UNCHANGED <<tasks, placed, cancels, observed>>
    /\ lastmsg' = NoMsg
    /\ UNCHANGED hfvars

\* the stream closes: the async for ends and the while loop starts over
WsClosed ==
    /\ ws.pc = "listen"
    /\ ws' = [ws EXCEPT !.pc = "geturl"]
    /\ UNCHANGED <<tasks, order_pairs, placed, cancels, observed>>
    /\ lastmsg' = NoMsg
    /\ UNCHANGED hfvars

\* except Exception: await asyncio.sleep(1)
WsBackoff ==
    /\ ws.pc = "sleep"
    /\ ws' = [ws EXCEPT !.pc = "geturl"]
    /\ UNCHANGED <<tasks, order_pairs, placed, cancels, observed>>
    /\ lastmsg' = NoMsg
    /\ UNCHANGED hfvars

\* ------------------------------------------------------------------ venues
Noop   == [name |-> "noop",     market |-> "futures"]
Kucoin == [name |-> "kucoin",   market |-> "futures"]
Other  == [name |-> "abstract", market |-> "spot"]      \* ExchangeClient's defaults

\* the (venue, market) keys of TRADING_CONFIG
TRADING_CONFIG == { <<"kucoin", "futures">>, <<"mexc", "spot">>, <<"noop", "futures">> }

CATALOG_FILTER_wide == {48, 161, 7}

CATALOG_FILTER == {48, 161}

\* DECISION_CONFIG with no environment override
DECISION_CONFIG ==
    [listing   |-> [side |-> "long",  exchanges |-> {"noop"}],
     delisting |-> [side |-> "short", exchanges |-> {"noop"}]]

\* DECISION_CONFIG as LISTING_EXCHANGES, DELISTING_EXCHANGES, ... can set it
DecisionConfigs ==
    { DECISION_CONFIG,
      [listing   |-> [side |-> "long",  exchanges |-> {"noop", "abstract"}],
       delisting |-> [side |-> "short", exchanges |-> {"kucoin", "noop"}]],
      [listing   |-> [side |-> "long",  exchanges |-> {}],
       delisting |-> [side |-> "long",  exchanges |-> {"kucoin"}]] }

\* venue lists a caller hands over
ExchangeLists == { <<Noop, Noop>>, <<Kucoin, Noop>>, <<Noop, Other>>, <<Kucoin>> }

\* A title, as far as the decision engine reads it: the trigger phrase it
\* contains and the tickers extracted from it, in sorted order.
Titles == { [trigger |-> "list",   tickers |-> <<"FOO">>],
            [trigger |-> "list",   tickers |-> <<"BAR", "FOO">>],
            [trigger |-> "delist", tickers |-> <<"BAR">>],
            [trigger |-> "list",   tickers |-> <<>>],
            [trigger |-> "none",   tickers |-> <<>>] }

NoCat    == 0                                   \* no catalogId in the payload
Payloads == [catalogId : {48, 161, 7, NoCat}, title : Titles]
NoPayload == [catalogId |-> NoCat, title |-> [trigger |-> "none", tickers |-> <<>>]]

\* decide_event_from_title: (kind, bases)
decide_event_from_title(title) ==
    IF title.trigger = "delist" /\ title.tickers # <<>>
    THEN [kind |-> "delisting", bases |-> title.tickers]
    ELSE IF title.trigger = "list" /\ title.tickers # <<>>
    THEN [kind |-> "listing", bases |-> title.tickers]
    ELSE [kind |-> "none", bases |-> <<>>]

\* decide_trade_from_title, the decision function of decision.py: a side
\* ("short", "long", "none") and the sorted bases
decide_trade_from_title(title) ==
    IF title.trigger = "delist"
    THEN IF title.tickers # <<>> THEN [kind |-> "short", bases |-> title.tickers]
         ELSE [kind |-> "none", bases |-> <<>>]
    ELSE IF title.trigger = "list"
    THEN IF title.tickers # <<>> THEN [kind |-> "long", bases |-> title.tickers]
         ELSE [kind |-> "none", bases |-> <<>>]
    ELSE [kind |-> "none", bases |-> <<>>]

\* the function the name imported by handler.py is bound to
Decide(fn, title) ==
    IF fn = "decide_trade_from_title" THEN decide_trade_from_title(title)
    ELSE decide_event_from_title(title)

\* payload.get("catalogId") or -1
Category(payload) == IF payload.catalogId = NoCat THEN -1 ELSE payload.catalogId

BTC_ALIAS(base) == IF base = "BTC" THEN "XBT" ELSE base

\* ex.symbol_from_base(base)
symbol_from_base(ex, base) ==
    IF ex.name = "kucoin" THEN [base |-> BTC_ALIAS(base), suffix |-> "USDTM"]
    ELSE [base |-> base, suffix |-> ""]

\* the two tests of the launch loop
Routed(ex, rule) == ex.name \in rule.exchanges /\ <<ex.name, ex.market>> \in TRADING_CONFIG

\* for base in bases: for ex in exchanges: the (base, venue index) pairs in
\* loop order
LoopPairs(bases, exs) ==
    [k \in 1..(Len(bases) * Len(exs)) |->
        <<bases[((k - 1) \div Len(exs)) + 1], ((k - 1) % Len(exs)) + 1>>]

\* the pairs a trade task is created for, in creation order
LaunchPairs_firstbase(bases, exs, rule) ==
    SelectSeq(LoopPairs(SubSeq(bases, 1, 1), exs), LAMBDA p : Routed(exs[p[2]], rule))

LaunchPairs(bases, exs, rule) ==
    SelectSeq(LoopPairs(bases, exs), LAMBDA p : Routed(exs[p[2]], rule))

\* ---------------------------------------------------------- handle_payload
\* pc: "idle" (not created), "start" (created, not yet run), "await"
\* (suspended at `await task`), "done", "raised" (an exception ended it);
\* msg: the number of the frame run_ws created it for, 0 for a direct call;
\* fn: the decision function it calls; decided: it has called it;
\* launched: the trade tasks in creation order; idx: the one awaited;
\* messages: the outcome texts collected; pushed: what went to push_telegram
IdleHandler == [pc |-> "idle", msg |-> 0, fn |-> "decide_event_from_title",
                decided |-> FALSE, payload |-> NoPayload, launched |-> <<>>, idx |-> 0,
                messages |-> <<>>, pushed |-> <<>>]

Note(kind) == [kind |-> kind, task |-> 0, ok |-> FALSE, err |-> NoErr]

Completed(t) == tasks[t].pc \in {"done", "failed"}

\* try: await task ... except Exception as e: ...  for a completed task:
\* the message appended, and whether the exception leaves handle_payload
AwaitResult_nocatch(t) ==
    [msg |-> [kind |-> "outcome", task |-> t, ok |-> tasks[t].pc = "done", err |-> tasks[t].err],
     raised |-> tasks[t].pc = "failed"]

AwaitResult(t) ==
    [msg |-> [kind |-> "outcome", task |-> t, ok |-> tasks[t].pc = "done", err |-> tasks[t].err],
     raised |-> FALSE]

\* the await loop from task i on, as far as it runs without suspending:
\* awaiting a finished task does not yield
RECURSIVE Drain(_, _, _)
Drain(launched, i, msgs) ==
    IF i > Len(launched) THEN [idx |-> i, messages |-> msgs, raised |-> FALSE]
    ELSE IF ~Completed(launched[i]) THEN [idx |-> i, messages |-> msgs, raised |-> FALSE]
    ELSE IF AwaitResult(launched[i]).raised THEN [idx |-> i, messages |-> msgs, raised |-> TRUE]
    ELSE Drain(launched, i + 1, Append(msgs, AwaitResult(launched[i]).msg))

\* for msg in messages: push_telegram(msg)
PushAll_last(msgs) == IF msgs = <<>> THEN <<>> ELSE <<msgs[Len(msgs)]>>

PushAll(msgs) == msgs

\* ids of the trade tasks created so far are 1..Created
Created == Cardinality({t \in TaskIds : tasks[t].pc # "idle"})

\* the trade task created for the k-th launched pair
NewTask(h, pairs, k, rule) ==
    LET ex == exchanges[pairs[k][2]] IN
    [IdleTask EXCEPT !.ex = ex.name, !.base = pairs[k][1], !.h = h, !.vi = pairs[k][2],
                     !.side = IF rule.side = "long" THEN "buy" ELSE "sell",
                     !.pc = IF ex.name = "kucoin" THEN "contract" ELSE "run"]

\* handle_payload from its start to its first await
HandleStart(h) ==
    /\ handlers[h].pc = "start"
    /\ LET payload == handlers[h].payload
           d       == Decide(handlers[h].fn, payload.title)
       IN
       IF Category(payload) \notin CATALOG_FILTER
       THEN /\ handlers' = [handlers EXCEPT ![h].pc = "done",
                                            ![h].pushed = <<Note("ignored")>>]
            /\ tasks' = tasks
       ELSE IF d.kind = "none" \/ d.bases = <<>>
       THEN /\ handlers' = [handlers EXCEPT ![h].pc = "done", ![h].decided = TRUE,
                                            ![h].pushed = <<Note("no decision")>>]
            /\ tasks' = tasks
       ELSE IF d.kind \notin DOMAIN config
       THEN /\ handlers' = [handlers EXCEPT ![h].pc = "done", ![h].decided = TRUE,
                                            ![h].pushed = <<Note("not configured")>>]
            /\ tasks' = tasks
       ELSE LET rule  == config[d.kind]
                pairs == LaunchPairs(d.bases, exchanges, rule)
                first == Created
            IN
            /\ first + Len(pairs) <= Cardinality(TaskIds)
            /\ tasks' = [t \in TaskIds |->
                            IF t > first /\ t <= first + Len(pairs)
                            THEN NewTask(h, pairs, t - first, rule) ELSE tasks[t]]
            /\ handlers' = [handlers EXCEPT
                              ![h].launched = [k \in 1..Len(pairs) |-> first + k],
                              ![h].idx = 1, ![h].decided = TRUE,
                              ![h].pc = IF pairs = <<>> THEN "done" ELSE "await"]
    /\ UNCHANGED <<order_pairs, ws, placed, cancels, observed, lastmsg,
                   exchanges, config, quote, feed, unitvars>>

\* the awaited task has completed: its outcome is recorded, and so are the
\* outcomes of the tasks after it that have completed as well; after the last
\* one the messages are pushed and handle_payload returns
HandleAwait(h) ==
    /\ handlers[h].pc = "await"
    /\ Completed(handlers[h].launched[handlers[h].idx])
    /\ LET r == Drain(handlers[h].launched, handlers[h].idx, handlers[h].messages) IN
       handlers' = [handlers EXCEPT
                      ![h].idx = r.idx,
                      ![h].messages = r.messages,
                      ![h].pc = IF r.raised THEN "raised"
                                ELSE IF r.idx > Len(handlers[h].launched) THEN "done"
                                ELSE "await",
                      ![h].pushed = IF ~r.raised /\ r.idx > Len(handlers[h].launched)
                                    THEN PushAll(r.messages) ELSE @]
    /\ UNCHANGED <<tasks, order_pairs, ws, placed, cancels, observed, lastmsg,
                   exchanges, config, quote, feed, unitvars>>

\* NoOpExchange.trade: await asyncio.sleep(0), then the result
NoopTrade(t) ==
    /\ tasks[t].pc = "run"
    /\ tasks' = [tasks EXCEPT ![t].pc = "done", ![t].fin = NextFin]
    /\ UNCHANGED <<order_pairs, ws, placed, cancels, observed, lastmsg>>
    /\ UNCHANGED hfvars

\* ------------------------------------------------------------------ run_ws
\* feed.pc: where run_ws is suspended: "connect" (websockets.connect),
\* "listen" (async for raw in ws), "sleep" (asyncio.sleep(1)); "off" when
\* run_ws was not started.  feed.reads: frames the async for has yielded;
\* feed.last: the latest of them.
FeedPayloads == {p \in Payloads : p.catalogId \in {48, 7} /\ p.title.trigger # "delist"
                                     /\ Len(p.title.tickers) < 2
                                     /\ (p.title.trigger = "list") = (p.title.tickers # <<>>)}

\* what the announcement stream delivers.  json: what json.loads(raw) gives
\* (nothing, a value that is no object, an object); type: its "type" member;
\* data: its "data" member (absent, a string that is not JSON, a payload)
NoFrame == [json |-> "none", type |-> "none", data |-> "none", payload |-> NoPayload]

Frame(j, t, d) == [json |-> j, type |-> t, data |-> d, payload |-> NoPayload]

RawMsgs == { Frame("invalid", "none", "none"),
             Frame("list", "none", "none"),
             Frame("object", "missing", "payload"),
             Frame("object", "other", "payload"),
             Frame("object", "DATA", "missing"),
             Frame("object", "DATA", "invalid") }
           \cup [json : {"object"}, type : {"DATA"}, data : {"payload"},
                 payload : FeedPayloads]

\* the body of the inner try for a frame: "raise", "continue" or "dispatch"
FrameResult(raw) ==
    IF raw.json = "invalid" THEN "raise"            \* json.loads(raw)
    ELSE IF raw.json # "object" THEN "raise"        \* msg_data.get
    ELSE IF raw.type # "DATA" THEN "continue"
    ELSE IF raw.data # "payload" THEN "raise"       \* msg_data["data"], json.loads
    ELSE "dispatch"

\* try: ... except Exception: pass
InnerTry_none(result) == result

InnerTry(result) == IF result = "raise" THEN "continue" ELSE result

FeedOff == [pc |-> "off", reads |-> 0, last |-> NoFrame]

FreeHandlers == {h \in HandlerIds : handlers[h].pc = "idle"}

InFlight == {h \in HandlerIds : handlers[h].pc \in {"start", "await"}}

\* the handle_payload tasks are numbered in the order run_ws creates them
NextHandler_last == CHOOSE x \in FreeHandlers : \A y \in FreeHandlers : x >= y

NextHandler == CHOOSE x \in FreeHandlers : \A y \in FreeHandlers : x <= y

\* the async for is suspended on the socket alone
FeedReady_await == feed.pc = "listen" /\ InFlight = {}

FeedReady == feed.pc = "listen"

\* websockets.connect returns, or raises
FeedConnect ==
    /\ feed.pc = "connect"
    /\ \E ok \in BOOLEAN : feed' = [feed EXCEPT !.pc = IF ok THEN "listen" ELSE "sleep"]
    /\ UNCHANGED <<kcvars, exchanges, config, quote, handlers, unitvars>>

\* one pass of the async for body: a frame arrives; a DATA frame with a
\* payload gets a handle_payload task of its own, any other frame is dropped
FeedRecv ==
    /\ FeedReady
    /\ FreeHandlers # {}
    /\ feed.reads < MaxFrames
    /\ \E raw \in RawMsgs :
          LET res == InnerTry(FrameResult(raw)) IN
          /\ feed' = [feed EXCEPT !.reads = @ + 1, !.last = raw,
                                  !.pc = IF res = "raise" THEN "sleep" ELSE @]
          /\ handlers' = IF res = "dispatch"
                         THEN [handlers EXCEPT ![NextHandler].pc = "start",
                                               ![NextHandler].payload = raw.payload,
                                               ![NextHandler].msg = feed.reads + 1]
                         ELSE handlers
    /\ UNCHANGED <<kcvars, exchanges, config, quote, unitvars>>

\* where run_ws goes when the stream ends (clean) or the socket fails: both
\* paths reach asyncio.sleep(1)
AfterClose_return(clean) == IF clean THEN "off" ELSE "sleep"

AfterClose(clean) == "sleep"

FeedClosed ==
    /\ feed.pc = "listen"
    /\ \E clean \in BOOLEAN : feed' = [feed EXCEPT !.pc = AfterClose(clean)]
    /\ UNCHANGED <<kcvars, exchanges, config, quote, handlers, unitvars>>

\* the sleep is over, the while loop starts again
FeedBackoff ==
    /\ feed.pc = "sleep"
    /\ feed' = [feed EXCEPT !.pc = "connect"]
    /\ UNCHANGED <<kcvars, exchanges, config, quote, handlers, unitvars>>

\* ------------------------------------------------------- protective prices
\* Prices and ticks are whole numbers of the smallest price unit, percentages
\* are whole; the arithmetic is exact.
MaxGap == 2

Refs  == {1000, 1005, 1050}
Ticks == {1, 10, 50}
Pcts  == {0, 1, 5}
Gaps  == 1..MaxGap

FloorDiv(a, b) == a \div b

CeilDiv(a, b) == (a + b - 1) \div b

\* _calc_raw_tp_sl, times 100: (tp_raw, sl_raw)
calc_raw_tp_sl(ref, side, tp_pct, sl_pct) ==
    IF side = "buy" THEN <<ref * (100 + tp_pct), ref * (100 - sl_pct)>>
    ELSE <<ref * (100 - tp_pct), ref * (100 + sl_pct)>>

\* _round_down_to_tick / _round_up_to_tick of px = num / den, for tick > 0
round_down_to_tick(num, den, tick) == FloorDiv(num, den * tick) * tick

round_up_to_tick(num, den, tick) == CeilDiv(num, den * tick) * tick

\* KuCoinFuturesClient.trade: the prices of the two protective orders
kucoin_tp_sl(ref, side, tick, tp_pct, sl_pct, gap) ==
    LET raw == calc_raw_tp_sl(ref, side, tp_pct, sl_pct) IN
    IF side = "buy"
    THEN [tp |-> round_up_to_tick(raw[1], 100, tick), sl |-> round_down_to_tick(raw[2], 100, tick)]
    ELSE [tp |-> round_down_to_tick(raw[1], 100, tick), sl |-> round_up_to_tick(raw[2], 100, tick)]

\* KcFutREST.place_market_with_attached_tpsl: the two trigger prices
attached_tp_sl(ref, side, tick, tp_pct, sl_pct, gap) ==
    LET raw == calc_raw_tp_sl(ref, side, tp_pct, sl_pct)
        r   == kucoin_tp_sl(ref, side, tick, tp_pct, sl_pct, gap)
    IN
    IF side = "buy"
    THEN [tp |-> IF r.tp <= ref THEN round_up_to_tick(ref + tick * gap, 1, tick) ELSE r.tp,
          sl |-> IF r.sl >= ref THEN round_down_to_tick(ref - tick * gap, 1, tick) ELSE r.sl]
    ELSE [tp |-> IF r.tp >= ref THEN round_down_to_tick(ref - tick * gap, 1, tick) ELSE r.tp,
          sl |-> IF r.sl <= ref THEN round_up_to_tick(ref + tick * gap, 1, tick) ELSE r.sl]

\* MexcSpotClient.trade: _calc_tp_sl, submitted as computed; in hundredths of
\* the price unit
mexc_tp_sl(ref, side, tick, tp_pct, sl_pct, gap) ==
    LET raw == calc_raw_tp_sl(ref, side, tp_pct, sl_pct) IN [tp |-> raw[1], sl |-> raw[2]]

\* the submitted prices are tp / den and sl / den
NoQuote == [pc |-> "none", adapter |-> "none", side |-> "none", ref |-> 0, tick |-> 0,
            tp_pct |-> 0, sl_pct |-> 0, gap |-> 0, tp |-> 0, sl |-> 0, den |-> 1]

Quotes == [pc : {"in"}, adapter : {"kucoin.py", "bnc.py", "mexc.py"}, side : {"buy", "sell"},
           ref : Refs, tick : Ticks, tp_pct : Pcts, sl_pct : Pcts, gap : Gaps,
           tp : {0}, sl : {0}, den : {1}]

\* the adapter computes the two prices it submits
ComputePrices ==
    /\ quote.pc = "in"
    /\ LET r == IF quote.adapter = "kucoin.py"
                THEN kucoin_tp_sl(quote.ref, quote.side, quote.tick, quote.tp_pct,
                                  quote.sl_pct, quote.gap)
                ELSE IF quote.adapter = "bnc.py"
                THEN attached_tp_sl(quote.ref, quote.side, quote.tick, quote.tp_pct,
                                    quote.sl_pct, quote.gap)
                ELSE mexc_tp_sl(quote.ref, quote.side, quote.tick, quote.tp_pct,
                                quote.sl_pct, quote.gap)
       IN quote' = [quote EXCEPT !.pc = "out", !.tp = r.tp, !.sl = r.sl,
                                 !.den = IF quote.adapter = "mexc.py" THEN 100 ELSE 1]
    /\ UNCHANGED <<kcvars, exchanges, config, handlers, feed, unitvars>>

\* ------------------------------------------------- the bracket-order call
\* KcFutREST.place_market_with_attached_tpsl.  Notional, prices and the
\* multiplier are whole numbers; the arithmetic is exact.
Keywords == {"invalid", "quantity", "parameter", "valueqty"}

\* Replies to a submission on /api/v1/st-orders: the HTTP status, the words
\* of the reason phrase and the body, whether the JSON body has "data", and
\* why the venue rejected the order ("none": it accepted it).
SubmitReplies ==
    { [status |-> 200, words |-> {"200000"},                       hasData |-> TRUE,  why |-> "none"],
      [status |-> 200, words |-> {"400100", "parameter"},          hasData |-> FALSE, why |-> "quantity"],
      [status |-> 400, words |-> {"bad", "request", "quantity"},   hasData |-> FALSE, why |-> "quantity"],
      [status |-> 401, words |-> {"unauthorized", "invalid", "kc-api-sign"},
                                                                   hasData |-> FALSE, why |-> "auth"],
      [status |-> 429, words |-> {"too", "many", "requests"},      hasData |-> FALSE, why |-> "ratelimit"],
      [status |-> 500, words |-> {"internal", "server", "error"},  hasData |-> FALSE, why |-> "server"] }

NoSubmitReply == [status |-> 0, words |-> {}, hasData |-> FALSE, why |-> "none"]

\* KcFutREST._req: what the call does with a response
bnc_req(r) == IF r.status = 429 THEN "sleep-raise"
              ELSE IF r.status < 200 \/ r.status >= 300 THEN "raise"
              ELSE "return"

\* the except clause of the first submission: the words tested in the message
IsQuantityError(r) == r.words \cap Keywords # {}

\* lots = int((float(notional_usdt) / (px * mult)) // 1), for px * mult > 0
LotsFor_ceil(notional, px, mult) == CeilDiv(notional, px * mult)

LotsFor(notional, px, mult) == FloorDiv(notional, px * mult)

Notionals == {10, 25}
Marks     == {0, 2, 5}            \* the mark price; 0: falsy
Lasts     == {0, 2}               \* the last traded price
Mults     == {0, 1, 3}            \* 0: the contract has no multiplier
LotMins   == {1, 5}

\* pc: the await the call is suspended at; sent: the orders submitted;
\* first: the reply to the first of them; px: the price of the lot
\* conversion; err: the exception that left the call
NoBracket == [pc |-> "none", notional |-> 0, ref |-> 0, mult |-> 0, lotmin |-> 0,
              px |-> 0, sent |-> <<>>, first |-> NoSubmitReply, err |-> NoErr]

BracketCalls == { [NoBracket EXCEPT !.pc = "contract", !.notional = n, !.ref = m,
                                    !.mult = k, !.lotmin = l] :
                  n \in Notionals, m \in Marks, k \in Mults, l \in LotMins }

BracketFail(b, e) == [b EXCEPT !.pc = "failed", !.err = e]

\* the fallback from the lot conversion on: a sizing error, or the second
\* submission
Fallback(b, px) ==
    IF b.mult <= 0 THEN BracketFail([b EXCEPT !.px = px], "Contract multiplier missing")
    ELSE IF px = 0 THEN BracketFail([b EXCEPT !.px = px], "ZeroDivisionError")
    ELSE IF LotsFor(b.notional, px, b.mult) < b.lotmin
    THEN BracketFail([b EXCEPT !.px = px], "lots below minimum")
    ELSE [b EXCEPT !.pc = "second", !.px = px,
                   !.sent = Append(@, [by |-> "size",
                                       qty |-> LotsFor(b.notional, px, b.mult)])]

\* get_contract returns
PlaceContract ==
    /\ bracket.pc = "contract"
    /\ \E ok \in BOOLEAN :
          bracket' = IF ok THEN [bracket EXCEPT !.pc = "mark"]
                     ELSE BracketFail(bracket, "RuntimeError")
    /\ UNCHANGED <<kcvars, exchanges, config, quote, handlers, feed, rest, boot, dec>>

\* get_mark_index returns; the order is submitted sized by notional
PlaceMark ==
    /\ bracket.pc = "mark"
    /\ \E ok \in BOOLEAN :
          bracket' = IF ok
                     THEN [bracket EXCEPT !.pc = "first",
                              !.sent = <<[by |-> "valueQty", qty |-> bracket.notional]>>]
                     ELSE BracketFail(bracket, "RuntimeError")
    /\ UNCHANGED <<kcvars, exchanges, config, quote, handlers, feed, rest, boot, dec>>

\* the reply to the first submission
PlaceFirst ==
    /\ bracket.pc = "first"
    /\ \E r \in SubmitReplies :
          LET b == [bracket EXCEPT !.first = r] IN
          bracket' =
             IF bnc_req(r) = "return"
             THEN IF r.hasData THEN [b EXCEPT !.pc = "done"] ELSE BracketFail(b, "KeyError")
             ELSE IF ~IsQuantityError(r) THEN BracketFail(b, "RuntimeError")
             ELSE IF b.ref = 0 THEN [b EXCEPT !.pc = "last"]
             ELSE Fallback(b, b.ref)
    /\ UNCHANGED <<kcvars, exchanges, config, quote, handlers, feed, rest, boot, dec>>

\* px = ref or await self.get_last_price(symbol): the last price returns
PlaceLast ==
    /\ bracket.pc = "last"
    /\ \E ok \in BOOLEAN : \E px \in Lasts :
          bracket' = IF ok THEN Fallback(bracket, px)
                     ELSE BracketFail(bracket, "RuntimeError")
    /\ UNCHANGED <<kcvars, exchanges, config, quote, handlers, feed, rest, boot, dec>>

\* the reply to the second submission
PlaceSecond ==
    /\ bracket.pc = "second"
    /\ \E r \in SubmitReplies :
          bracket' = IF bnc_req(r) = "return"
                     THEN IF r.hasData THEN [bracket EXCEPT !.pc = "done"]
                          ELSE BracketFail(bracket, "KeyError")
                     ELSE BracketFail(bracket, "RuntimeError")
    /\ UNCHANGED <<kcvars, exchanges, config, quote, handlers, feed, rest, boot, dec>>

\* ------------------------------------------------------- one REST request
\* _req of the three adapters: KuCoinFuturesClient (kucoin.py), KcFutREST
\* (bnc.py) and MexcSpotClient (mexc.py).
Adapters == {"kucoin.py", "bnc.py", "mexc.py"}
Methods  == {"GET", "POST", "DELETE"}

DefaultResetMs == 250    \* r.headers.get("gw-ratelimit-reset", "250")

\* A response: the HTTP status, the code embedded in the JSON body ("none":
\* the body carries none) and the gw-ratelimit-reset header (0: absent).
RestResponses == [status : {200, 201, 400, 429, 500},
                  code   : {"none", "200000", "400100"},
                  reset  : {0, 100}]

NoResponse == [status |-> 0, code |-> "none", reset |-> 0]

\* the code a KuCoin body carries on success
Sentinel == "200000"

Is2xx(r) == r.status >= 200 /\ r.status < 300

\* what each _req does with a response: "raise", "return", or "sleep" (the
\* rate-limit branch: sleep the reset interval, then raise)
kucoin_req(r) == IF ~Is2xx(r) THEN "raise"
                 ELSE IF r.code # "none" /\ r.code # Sentinel THEN "raise"
                 ELSE "return"

mexc_req(r) == IF ~Is2xx(r) THEN "raise" ELSE "return"

ReqOutcome(adapter, r) ==
    IF adapter = "kucoin.py" THEN kucoin_req(r)
    ELSE IF adapter = "bnc.py"
    THEN (IF bnc_req(r) = "sleep-raise" THEN "sleep" ELSE bnc_req(r))
    ELSE mexc_req(r)

\* pc: "sent" the request is out, "sleep" the call sleeps the reset interval,
\* "raised" / "returned" how it ended; sends: requests sent; waited: the
\* milliseconds slept
NoRest == [pc |-> "none", adapter |-> "none", method |-> "none",
           response |-> NoResponse, sends |-> 0, waited |-> 0]

RestCalls == { [NoRest EXCEPT !.pc = "sent", !.adapter = a, !.method = m, !.sends = 1] :
               a \in Adapters, m \in Methods }

\* the response arrives
ReqResponse ==
    /\ rest.pc = "sent"
    /\ \E r \in RestResponses :
          LET o == ReqOutcome(rest.adapter, r) IN
          rest' = [rest EXCEPT !.response = r,
                               !.pc = CASE o = "raise"  -> "raised"
                                        [] o = "return" -> "returned"
                                        [] OTHER        -> "sleep"]
    /\ UNCHANGED <<kcvars, exchanges, config, quote, handlers, feed, bracket, boot, dec>>

\* asyncio.sleep(reset_ms / 1000.0) is over: the call raises
ReqWake ==
    /\ rest.pc = "sleep"
    /\ rest' = [rest EXCEPT !.pc = "raised",
                            !.waited = IF rest.response.reset = 0 THEN DefaultResetMs
                                       ELSE rest.response.reset]
    /\ UNCHANGED <<kcvars, exchanges, config, quote, handlers, feed, bracket, boot, dec>>

\* ------------------------------------------------------------------ startup
\* main() and build_exchanges().  The environment: TEST_MODE, whether the
\* credentials of the feed and of each venue are all set, and the venue names
\* of the two routing rules of DECISION_CONFIG.
KnownVenues == {"noop", "kucoin", "mexc"}
VenueNames  == KnownVenues \cup {"bybit"}       \* "bybit": a name no branch knows

Environments == [test : BOOLEAN, binance : BOOLEAN, kc : BOOLEAN, mexc : BOOLEAN,
                 listing : SUBSET VenueNames, delisting : {{}, {"noop"}, {"kucoin"}}]

NoEnv == [test |-> FALSE, binance |-> FALSE, kc |-> FALSE, mexc |-> FALSE,
          listing |-> {}, delisting |-> {}]

\* pc: "main" at the entry of main(), "build" before build_exchanges(),
\* "built" before run_ws, "feed" inside run_ws, "aborted" main() raised;
\* venues: the names of the clients in the list handed to run_ws
NoBoot == [pc |-> "none", env |-> NoEnv, venues |-> {}, err |-> NoErr]

\* the names DECISION_CONFIG routes to
RoutedNames(env) == env.listing \cup env.delisting

\* build_exchanges(None): the names it walks through
EnabledNames(env) == IF RoutedNames(env) = {} /\ env.test THEN {"noop"}
                     ELSE RoutedNames(env)

\* build_exchanges: the clients appended, by name
ClientsBuilt(env) ==
    {n \in EnabledNames(env) : \/ n = "noop"
                               \/ n = "kucoin" /\ env.kc
                               \/ n = "mexc" /\ env.mexc}

\* the check at the entry of main()
MainCheck ==
    /\ boot.pc = "main"
    /\ boot' = IF ~boot.env.test /\ ~(boot.env.binance /\ boot.env.kc)
               THEN [boot EXCEPT !.pc = "aborted", !.err = "SystemExit"]
               ELSE [boot EXCEPT !.pc = "build"]
    /\ UNCHANGED <<kcvars, exchanges, config, quote, handlers, feed, bracket, rest, dec>>

\* exchanges = build_exchanges()
BuildExchanges ==
    /\ boot.pc = "build"
    /\ boot' = IF EnabledNames(boot.env) \subseteq KnownVenues
               THEN [boot EXCEPT !.pc = "built", !.venues = ClientsBuilt(boot.env)]
               ELSE [boot EXCEPT !.pc = "aborted", !.err = "ValueError"]
    /\ UNCHANGED <<kcvars, exchanges, config, quote, handlers, feed, bracket, rest, dec>>

\* the configuration is logged and pushed; run_ws(exchanges) is entered
MainRun ==
    /\ boot.pc = "built"
    /\ boot' = [boot EXCEPT !.pc = "feed"]
    /\ UNCHANGED <<kcvars, exchanges, config, quote, handlers, feed, bracket, rest, dec>>

\* ------------------------------------------------------------ title decision
\* decision.py on the text of a title.  A word is a sequence of characters
\* and a title a sequence of words; the text is the words joined by single
\* spaces.
MaxBases == 2      \* items after the trigger phrase of a title

UpperChars == <<"A", "B", "C", "D", "E", "F", "G", "H", "I", "J", "K", "L", "M", "N", "O", "P", "Q", "R", "S", "T", "U", "V", "W", "X", "Y", "Z">>
LowerChars == <<"a", "b", "c", "d", "e", "f", "g", "h", "i", "j", "k", "l", "m", "n", "o", "p", "q", "r", "s", "t", "u", "v", "w", "x", "y", "z">>
UpperSet   == {UpperChars[i] : i \in 1..26}
LowerSet   == {LowerChars[i] : i \in 1..26}
DigitSet   == {"0", "1", "2", "3", "4", "5", "6", "7", "8", "9"}

\* str.lower / str.upper, one character
ToLower(c) == IF c \in UpperSet THEN LowerChars[CHOOSE i \in 1..26 : UpperChars[i] = c] ELSE c
ToUpper(c) == IF c \in LowerSet THEN UpperChars[CHOOSE i \in 1..26 : LowerChars[i] = c] ELSE c

Lower(text) == [i \in 1..Len(text) |-> ToLower(text[i])]
Upper(text) == [i \in 1..Len(text) |-> ToUpper(text[i])]

\* \w and [A-Z0-9]
IsWordChar(c) == c \in UpperSet \cup LowerSet \cup DigitSet \cup {"_"}
IsUpAlnum(c)  == c \in UpperSet \cup DigitSet

RECURSIVE Join(_)
Join(words) == IF words = <<>> THEN <<>>
               ELSE IF Len(words) = 1 THEN words[1]
               ELSE words[1] \o <<" ">> \o Join(Tail(words))

\* pat occurs in text at position i
OccursAt(text, pat, i) == i >= 1 /\ i + Len(pat) - 1 <= Len(text)
                          /\ SubSeq(text, i, i + Len(pat) - 1) = pat

\* `pat in text`
Contains(text, pat) == \E i \in 1..Len(text) : OccursAt(text, pat, i)

\* re.search(r"\bdelist\b", tl)
HasDelistToken(tl) ==
    \E i \in 1..Len(tl) :
        /\ OccursAt(tl, <<"d", "e", "l", "i", "s", "t">>, i)
        /\ (i = 1 \/ ~IsWordChar(tl[i - 1]))
        /\ (i + 6 > Len(tl) \/ ~IsWordChar(tl[i + 6]))

ListingPhrases == { <<"w", "i", "l", "l", " ", "a", "d", "d">>,
                    <<"w", "i", "l", "l", " ", "l", "i", "s", "t">>,
                    <<"w", "i", "l", "l", " ", "b", "e", " ", "a", "v", "a", "i", "l", "a", "b", "l", "e">>,
                    <<"w", "i", "l", "l", " ", "l", "a", "u", "n", "c", "h">>,
                    <<"f", "u", "t", "u", "r", "e", "s", " ", "w", "i", "l", "l", " ", "l", "a", "u", "n", "c", "h">> }

HasListingPhrase(tl) == \E k \in ListingPhrases : Contains(tl, k)

\* the first index from p on that holds no space
RECURSIVE SkipSpaces(_, _)
SkipSpaces(seg, p) == IF p <= Len(seg) /\ seg[p] = " " THEN SkipSpaces(seg, p + 1) ELSE p

\* the first index from p on that holds neither a comma nor a space
RECURSIVE SkipSeps(_, _)
SkipSeps(seg, p) == IF p <= Len(seg) /\ seg[p] \in {",", " "} THEN SkipSeps(seg, p + 1) ELSE p

\* re.split(r"[,\s]+and\s+|,\s*|\s+", seg): the set of parts, scanning from
\* p with the part under way in cur
RECURSIVE SplitParts(_, _, _, _)
SplitParts(seg, p, cur, out) ==
    IF p > Len(seg) THEN out \cup {cur}
    ELSE IF seg[p] \notin {",", " "} THEN SplitParts(seg, p + 1, Append(cur, seg[p]), out)
    ELSE LET q == SkipSeps(seg, p) IN
         IF OccursAt(seg, <<"a", "n", "d">>, q) /\ q + 3 <= Len(seg) /\ seg[q + 3] = " "
         THEN SplitParts(seg, SkipSpaces(seg, q + 3), <<>>, out \cup {cur})
         ELSE SplitParts(seg, SkipSpaces(seg, p + 1), <<>>, out \cup {cur})

\* re.fullmatch(r"[A-Z0-9]{2,15}", tok)
IsTicker(tok) == Len(tok) >= 2 /\ Len(tok) <= 15 /\ \A i \in 1..Len(tok) : IsUpAlnum(tok[i])

QuoteCoins == { <<"U", "S", "D", "T">>, <<"U", "S", "D", "C">>, <<"U", "S", "D">> }

\* seg.split(" on ")[0]
BeforeOn(seg) ==
    IF Contains(seg, <<" ", "o", "n", " ">>)
    THEN SubSeq(seg, 1, (CHOOSE i \in 1..Len(seg) :
                            /\ OccursAt(seg, <<" ", "o", "n", " ">>, i)
                            /\ \A j \in 1..(i - 1) : ~OccursAt(seg, <<" ", "o", "n", " ">>, j)) - 1)
    ELSE seg

\* re.search(r"delist\s+(.+)", title, flags=re.I): where group 1 starts
\* (0: no match)
DelistSegStart(title) ==
    LET tl == Lower(title)
        hit(i) == /\ OccursAt(tl, <<"d", "e", "l", "i", "s", "t">>, i)
                  /\ i + 6 <= Len(tl) /\ tl[i + 6] = " "
                  /\ SkipSpaces(tl, i + 6) <= Len(tl)
    IN IF \E i \in 1..Len(tl) : hit(i)
       THEN SkipSpaces(tl, (CHOOSE i \in 1..Len(tl) :
                               hit(i) /\ \A j \in 1..(i - 1) : ~hit(j)) + 6)
       ELSE 0

\* _bases_from_delist
bases_from_delist(title) ==
    LET s == DelistSegStart(title) IN
    IF s = 0 THEN {}
    ELSE LET seg   == BeforeOn(SubSeq(title, s, Len(title)))
             parts == SplitParts(seg, 1, <<>>, {})
         IN {Upper(p) : p \in {x \in parts : IsTicker(Upper(x)) /\ Upper(x) \notin QuoteCoins}}

\* the smaller of two numbers
Min(a, b) == IF a < b THEN a ELSE b

\* _bases_from_parentheses: re.findall(r"\(([A-Z0-9]{2,15})\)", title)
bases_from_parentheses(title) ==
    UNION { { SubSeq(title, i + 1, j - 1) :
                j \in { y \in (i + 3)..Min(i + 16, Len(title)) :
                          title[y] = ")" /\ IsTicker(SubSeq(title, i + 1, y - 1)) } } :
            i \in { x \in 1..Len(title) : title[x] = "(" } }

\* _bases_from_usdt_pairs: re.findall(r"\b([A-Z0-9]{2,30})USDT\b", title)
bases_from_usdt_pairs(title) ==
    UNION { { SubSeq(title, i, j - 4) :
                j \in { y \in (i + 5)..Min(i + 33, Len(title)) :
                          /\ (y = Len(title) \/ ~IsWordChar(title[y + 1]))
                          /\ \A k \in i..y : IsUpAlnum(title[k])
                          /\ SubSeq(title, y - 3, y) = <<"U", "S", "D", "T">> } } :
            i \in { x \in 1..Len(title) :
                      IsUpAlnum(title[x]) /\ (x = 1 \/ ~IsWordChar(title[x - 1])) } }

\* the order of sorted() on upper-case tickers: code points
Rank(c) == IF c \in DigitSet THEN CHOOSE i \in 0..9 : <<"0", "1", "2", "3", "4", "5", "6", "7", "8", "9">>[i + 1] = c
           ELSE IF c \in UpperSet THEN 16 + (CHOOSE i \in 1..26 : UpperChars[i] = c)
           ELSE 0

RECURSIVE Before(_, _)
Before(a, b) == IF a = <<>> THEN TRUE
                ELSE IF b = <<>> THEN FALSE
                ELSE IF a[1] = b[1] THEN Before(Tail(a), Tail(b))
                ELSE Rank(a[1]) < Rank(b[1])

\* sorted(bases)
RECURSIVE Sorted(_)
Sorted(S) == IF S = {} THEN <<>>
             ELSE LET m == CHOOSE x \in S : \A y \in S : Before(x, y)
                  IN <<m>> \o Sorted(S \ {m})

\* decide_trade_from_title on the text of a title
decide_text_keepkind(title) ==
    IF title = <<>> THEN [kind |-> "none", bases |-> <<>>]
    ELSE LET tl == Lower(title) IN
         IF Contains(tl, <<"w", "i", "l", "l", " ", "d", "e", "l", "i", "s", "t">>) \/ HasDelistToken(tl)
         THEN [kind |-> "short", bases |-> Sorted(bases_from_delist(title))]
         ELSE IF HasListingPhrase(tl)
         THEN [kind |-> "long",
               bases |-> Sorted(bases_from_parentheses(title) \cup bases_from_usdt_pairs(title))]
         ELSE [kind |-> "none", bases |-> <<>>]

decide_text(title) ==
    IF title = <<>> THEN [kind |-> "none", bases |-> <<>>]
    ELSE LET tl == Lower(title) IN
         IF Contains(tl, <<"w", "i", "l", "l", " ", "d", "e", "l", "i", "s", "t">>) \/ HasDelistToken(tl)
         THEN LET bases == bases_from_delist(title) IN
              IF bases # {} THEN [kind |-> "short", bases |-> Sorted(bases)]
              ELSE [kind |-> "none", bases |-> <<>>]
         ELSE IF HasListingPhrase(tl)
         THEN LET bases == bases_from_parentheses(title) \cup bases_from_usdt_pairs(title) IN
              IF bases # {} THEN [kind |-> "long", bases |-> Sorted(bases)]
              ELSE [kind |-> "none", bases |-> <<>>]
         ELSE [kind |-> "none", bases |-> <<>>]

\* the titles decided on: a prefix, a trigger phrase, up to MaxBases items
\* and a date suffix
Prefixes == { <<>>, <<<<"B", "i", "n", "a", "n", "c", "e">>>>, <<<<"B", "i", "n", "a", "n", "c", "e">>, <<"W", "i", "l", "l">>, <<"L", "i", "s", "t">>, <<"(", "F", "O", "O", ")">>, <<"a", "n", "d">>>> }

Triggers == { <<<<"W", "i", "l", "l">>, <<"L", "i", "s", "t">>>>, <<<<"w", "i", "l", "l">>, <<"d", "e", "l", "i", "s", "t">>>>, <<<<"W", "i", "l", "l">>, <<"D", "e", "l", "i", "s", "t">>>>,
              <<<<"w", "i", "l", "l">>, <<"d", "e", "l", "i", "s", "t", "i", "n", "g">>>>, <<<<"F", "u", "t", "u", "r", "e", "s">>, <<"W", "i", "l", "l">>, <<"L", "a", "u", "n", "c", "h">>>>,
              <<<<"S", "o", "m", "e">>, <<"o", "t", "h", "e", "r">>, <<"n", "e", "w", "s">>>>, <<>> }

Items == { <<<<"B", "A", "R">>>>, <<<<"B", "A", "Z">>>>, <<<<"U", "S", "D", "T">>>>, <<<<"F", "o", "o">>, <<"(", "F", "O", "O", ")">>>>,
           <<<<"B", "A", "R", "U", "S", "D", "T">>>>, <<<<"T">>>> }

Seps == { <<<<",">>>>, <<<<"a", "n", "d">>>> }

Suffixes == { <<>>, <<<<"o", "n">>, <<"2", "0", "2", "5", "-", "0", "1", "-", "0", "1">>>> }

\* items joined by separators: "A", "A, B", "A and B", ...
RECURSIVE ItemLists(_)
ItemLists(n) ==
    IF n = 0 THEN {<<>>}
    ELSE IF n = 1 THEN Items
    ELSE { l \o s \o i : l \in ItemLists(n - 1), s \in Seps, i \in Items }

Bodies == UNION { ItemLists(n) : n \in 0..MaxBases }

\* the words of a title: the comma of a separator is glued to the word
\* before it
RECURSIVE Glue(_)
Glue(words) ==
    IF Len(words) < 2 THEN words
    ELSE IF words[2] = <<",">> THEN Glue(<<words[1] \o <<",">>>> \o SubSeq(words, 3, Len(words)))
    ELSE <<words[1]>> \o Glue(Tail(words))

TitleTexts == { Join(Glue(p \o t \o b \o s)) :
                p \in Prefixes, t \in Triggers, b \in Bodies, s \in Suffixes }

\* pc: "in" before the call, "out" after it
NoDec == [pc |-> "none", title |-> <<>>, kind |-> "none", bases |-> <<>>]

DecideTitle ==
    /\ dec.pc = "in"
    /\ LET r == decide_text(dec.title) IN
       dec' = [dec EXCEPT !.pc = "out", !.kind = r.kind, !.bases = r.bases]
    /\ UNCHANGED <<kcvars, exchanges, config, quote, handlers, feed, bracket, rest, boot>>

\* no bracket call, REST call, startup or title decision is under way
UnitsIdle == bracket = NoBracket /\ rest = NoRest /\ boot = NoBoot /\ dec = NoDec

\* ------------------------------------------------------------------- Spec
Init ==
    /\ tasks = [t \in TaskIds |-> IdleTask]
    /\ order_pairs = [o \in OrderIds |-> NoId]
    /\ ws = NoWatcher
    /\ placed = {}
    /\ cancels = [o \in OrderIds |-> 0]
    /\ observed = {}
    /\ lastmsg = NoMsg
    /\ exchanges = <<Kucoin>>
    /\ config = DECISION_CONFIG
    /\ handlers = [h \in HandlerIds |-> IdleHandler]
    /\ feed = FeedOff
    /\ quote = NoQuote
    /\ UnitsIdle

Next ==
    \/ \E t \in TaskIds : CallTrade(t)
    \/ \E t \in TaskIds : TradeContract(t)
    \/ \E t \in TaskIds : TradeEntry(t)
    \/ \E t \in TaskIds : TradePoll(t)
    \/ \E t \in TaskIds : TradeTp(t)
    \/ \E t \in TaskIds : TradeSl(t)
    \/ WsGetUrl
    \/ WsConnect
    \/ WsSubscribe
    \/ WsRecv
    \/ WsCancel
    \/ WsClosed
    \/ WsBackoff

Spec == Init /\ [][Next]_vars

\* ------------------------------------------------------------------ SpecE
\* The adapter with further trade calls running on it, each of them reduced
\* to its _ensure_ws call.
EnsureCall ==
    /\ ws.calls < EnsureCap
    /\ ws' = ensure_ws(ws)
    /\ UNCHANGED <<tasks, order_pairs, placed, cancels, observed>>
    /\ lastmsg' = NoMsg
    /\ UNCHANGED hfvars

NextE == Next \/ EnsureCall

SpecE == Init /\ [][NextE]_vars

\* ------------------------------------------------------------------ SpecH
\* One handle_payload call on a payload, a venue list and a routing table of
\* the caller's choice, with the trade tasks it launches.  The private order
\* stream pushes nothing while the call runs.
InitH ==
    /\ tasks = [t \in TaskIds |-> IdleTask]
    /\ order_pairs = [o \in OrderIds |-> NoId]
    /\ ws = NoWatcher
    /\ placed = {}
    /\ cancels = [o \in OrderIds |-> 0]
    /\ observed = {}
    /\ lastmsg = NoMsg
    /\ exchanges \in ExchangeLists
    /\ config \in DecisionConfigs
    /\ \E p \in Payloads :
          handlers = [h \in HandlerIds |->
                        IF h = 1 THEN [IdleHandler EXCEPT !.pc = "start", !.payload = p]
                        ELSE IdleHandler]
    /\ feed = FeedOff
    /\ quote = NoQuote
    /\ UnitsIdle

NextH ==
    \/ \E h \in HandlerIds : HandleStart(h)
    \/ \E h \in HandlerIds : HandleAwait(h)
    \/ \E t \in TaskIds : NoopTrade(t)
    \/ \E t \in TaskIds : TradeContract(t)
    \/ \E t \in TaskIds : TradeEntry(t)
    \/ \E t \in TaskIds : TradePoll(t)
    \/ \E t \in TaskIds : TradeTp(t)
    \/ \E t \in TaskIds : TradeSl(t)
    \/ WsGetUrl
    \/ WsConnect
    \/ WsSubscribe
    \/ WsClosed
    \/ WsBackoff

SpecH == InitH /\ [][NextH]_vars

\* ------------------------------------------------------------------ SpecD
\* One handle_payload call in which the imported name is bound to the
\* decision function that decision.py defines.
InitD ==
    /\ tasks = [t \in TaskIds |-> IdleTask]
    /\ order_pairs = [o \in OrderIds |-> NoId]
    /\ ws = NoWatcher
    /\ placed = {}
    /\ cancels = [o \in OrderIds |-> 0]
    /\ observed = {}
    /\ lastmsg = NoMsg
    /\ exchanges \in ExchangeLists
    /\ config \in DecisionConfigs
    /\ \E p \in Payloads :
          handlers = [h \in HandlerIds |->
                        IF h = 1 THEN [IdleHandler EXCEPT !.pc = "start", !.payload = p,
                                                          !.fn = "decide_trade_from_title"]
                        ELSE IdleHandler]
    /\ feed = FeedOff
    /\ quote = NoQuote
    /\ UnitsIdle

NextD == \E h \in HandlerIds : HandleStart(h)

SpecD == InitD /\ [][NextD]_vars

\* the tasks' and the watcher's own steps: a reply, a timeout or an error
\* ends every await (aiohttp timeouts, sleep), and the event loop runs every
\* ready task
TradeSteps ==
    \E t \in TaskIds : TradeContract(t) \/ TradeEntry(t) \/ TradePoll(t)
                          \/ TradeTp(t) \/ TradeSl(t)

WatcherSteps == WsGetUrl \/ WsConnect \/ WsSubscribe \/ WsCancel \/ WsBackoff

FairSpec == Spec /\ WF_vars(TradeSteps) /\ WF_vars(WatcherSteps)

\* ------------------------------------------------------------------ claims
KcTrades == 1..MaxTrades
\* the venue accepted both protective orders of trade t and returned their ids
BothPlaced(t) ==
    /\ <<t, "tp">> \in placed /\ <<t, "sl">> \in placed
    /\ tasks[t].tp_id # NoId
    /\ tasks[t].paired \/ (tasks[t].pc = "sl" /\ tasks[t].inflight.hasId)

\* C1: on the split-order venue, once both protective orders of a trade call
\* are placed and the watcher receives a terminal update for one leg, a cancel
\* request for the other leg is eventually issued.
C1_SiblingCancelled ==
    \A o \in KcTrades \X Legs :
        [](  (BothPlaced(o[1]) /\ lastmsg = [oid |-> o, term |-> TRUE])
             => <>(cancels[Sibling(o)] > 0) )

\* C2: a terminal update whose order id is not a key of the pair mapping is a
\* no-op: the mapping is unchanged, no cancel request is issued and the
\* watcher stays in its receive loop.
C2_UnknownIdNoOp ==
    [][ (lastmsg'.term /\ lastmsg'.oid \notin Keys(order_pairs))
        => (order_pairs' = order_pairs /\ cancels' = cancels /\ ws' = ws) ]_vars

\* C2 witness: a duplicate terminal update for a leg whose pair was recorded
\* and already removed has been handled.
C2_Witness ==
    /\ lastmsg.term /\ lastmsg.oid \in placed
    /\ tasks[lastmsg.oid[1]].paired
    /\ cancels[Sibling(lastmsg.oid)] = 1
    /\ ws.pc = "listen"

\* C3: at most one cancel request is ever issued for a recorded pair.
C3_OneCancelPerPair ==
    \A t \in KcTrades : cancels[<<t, "tp">>] + cancels[<<t, "sl">>] <= 1

\* C4: the pair mapping is symmetric, and an id of a recorded pair is a key
\* iff its sibling has not been observed terminal.
C4_MappingConsistent ==
    /\ \A a \in Keys(order_pairs) : order_pairs[order_pairs[a]] = a
    /\ \A o \in KcTrades \X Legs :
          tasks[o[1]].paired => (o \in Keys(order_pairs) <=> Sibling(o) \notin observed)

\* C5: once the watcher has handled a terminal update for an id of the
\* mapping (the cancel request answered, with success or with an error),
\* neither id of the pair is a key.
C5_BothRemoved ==
    [][ (ws.pc = "cancel" /\ ws'.pc # "cancel")
        => (ws.other \notin Keys(order_pairs') /\ Sibling(ws.other) \notin Keys(order_pairs')) ]_vars

\* ------------------------------------------------------------------ SpecF
\* run_ws with the no-op venue, and the handle_payload tasks it creates.
InitF ==
    /\ tasks = [t \in TaskIds |-> IdleTask]
    /\ order_pairs = [o \in OrderIds |-> NoId]
    /\ ws = NoWatcher
    /\ placed = {}
    /\ cancels = [o \in OrderIds |-> 0]
    /\ observed = {}
    /\ lastmsg = NoMsg
    /\ exchanges = <<Noop>>
    /\ config = DECISION_CONFIG
    /\ handlers = [h \in HandlerIds |-> IdleHandler]
    /\ feed = [FeedOff EXCEPT !.pc = "connect"]
    /\ quote = NoQuote
    /\ UnitsIdle

NextF ==
    \/ FeedConnect
    \/ FeedRecv
    \/ FeedClosed
    \/ FeedBackoff
    \/ \E h \in HandlerIds : HandleStart(h)
    \/ \E h \in HandlerIds : HandleAwait(h)
    \/ \E t \in TaskIds : NoopTrade(t)

SpecF == InitF /\ [][NextF]_vars

\* websockets.connect ends (the handshake has a timeout) and so does
\* asyncio.sleep(1)
FairSpecF == SpecF /\ WF_vars(FeedConnect) /\ WF_vars(FeedBackoff)

\* ------------------------------------------------------------------ SpecR
\* One computation of the protective prices by either adapter.
InitR ==
    /\ tasks = [t \in TaskIds |-> IdleTask]
    /\ order_pairs = [o \in OrderIds |-> NoId]
    /\ ws = NoWatcher
    /\ placed = {}
    /\ cancels = [o \in OrderIds |-> 0]
    /\ observed = {}
    /\ lastmsg = NoMsg
    /\ exchanges = <<Kucoin>>
    /\ config = DECISION_CONFIG
    /\ handlers = [h \in HandlerIds |-> IdleHandler]
    /\ feed = FeedOff
    /\ quote \in Quotes
    /\ UnitsIdle

NextR == ComputePrices

SpecR == InitR /\ [][NextR]_vars

\* ------------------------------------------------------------------ SpecB
\* One place_market_with_attached_tpsl call on inputs of the caller's choice.
KcIdle ==
    /\ tasks = [t \in TaskIds |-> IdleTask]
    /\ order_pairs = [o \in OrderIds |-> NoId]
    /\ ws = NoWatcher
    /\ placed = {}
    /\ cancels = [o \in OrderIds |-> 0]
    /\ observed = {}
    /\ lastmsg = NoMsg
    /\ exchanges = <<Kucoin>>
    /\ config = DECISION_CONFIG
    /\ handlers = [h \in HandlerIds |-> IdleHandler]
    /\ feed = FeedOff
    /\ quote = NoQuote

InitB ==
    /\ KcIdle
    /\ bracket \in BracketCalls
    /\ rest = NoRest /\ boot = NoBoot /\ dec = NoDec

NextB == PlaceContract \/ PlaceMark \/ PlaceFirst \/ PlaceLast \/ PlaceSecond

SpecB == InitB /\ [][NextB]_vars

\* ------------------------------------------------------------------ SpecQ
\* One _req call of an adapter and the response it gets.
InitQ ==
    /\ KcIdle
    /\ rest \in RestCalls
    /\ bracket = NoBracket /\ boot = NoBoot /\ dec = NoDec

NextQ == ReqResponse \/ ReqWake

SpecQ == InitQ /\ [][NextQ]_vars

\* ------------------------------------------------------------------ SpecM
\* main() started in an environment of the operator's choice.
InitM ==
    /\ KcIdle
    /\ boot \in {[NoBoot EXCEPT !.pc = "main", !.env = e] : e \in Environments}
    /\ bracket = NoBracket /\ rest = NoRest /\ dec = NoDec

NextM == MainCheck \/ BuildExchanges \/ MainRun

SpecM == InitM /\ [][NextM]_vars

\* ------------------------------------------------------------------ SpecT
\* One decide_trade_from_title call on a title of the caller's choice.
InitT ==
    /\ KcIdle
    /\ dec \in {[NoDec EXCEPT !.pc = "in", !.title = t] : t \in TitleTexts}
    /\ bracket = NoBracket /\ rest = NoRest /\ boot = NoBoot

NextT == DecideTitle

SpecT == InitT /\ [][NextT]_vars

\* ------------------------------------------------------------ handle_payload
Started == {h \in HandlerIds : handlers[h].pc \notin {"idle", "start"}}

Range(f) == {f[i] : i \in DOMAIN f}

\* the trade calls handler h created for base b on the i-th supplied venue
CallsFor(h, b, i) ==
    {t \in TaskIds : tasks[t].pc # "idle" /\ tasks[t].h = h
                     /\ tasks[t].base = b /\ tasks[t].vi = i}

AllBases == UNION {Range(ti.tickers) : ti \in Titles}

\* the (base, venue) pairs the event of handler h is to be traded on
Wanted(h) ==
    LET d == decide_event_from_title(handlers[h].payload.title) IN
    IF Category(handlers[h].payload) \notin CATALOG_FILTER \/ d.kind = "none"
    THEN {}
    ELSE {p \in Range(d.bases) \X DOMAIN exchanges :
             /\ exchanges[p[2]].name \in config[d.kind].exchanges
             /\ <<exchanges[p[2]].name, exchanges[p[2]].market>> \in TRADING_CONFIG}

\* C6: once handle_payload has passed its launch loop, there is exactly one
\* trade call for every (base, venue) pair with the base in the decision's
\* bases and the venue supplied, named by the routing rule and configured in
\* TRADING_CONFIG, and there is no trade call for any other pair; two bases
\* on two routed venues give four calls.
C6_OneCallPerPair ==
    \A h \in Started :
        /\ \A p \in AllBases \X DOMAIN exchanges :
              Cardinality(CallsFor(h, p[1], p[2])) = IF p \in Wanted(h) THEN 1 ELSE 0
        /\ Cardinality({t \in TaskIds : tasks[t].pc # "idle" /\ tasks[t].h = h})
              = Cardinality(Wanted(h))
        /\ Len(handlers[h].launched) = Cardinality(Wanted(h))

C6_Witness ==
    \E h \in Started :
        /\ Len(handlers[h].launched) = 4
        /\ Cardinality({tasks[t].base : t \in Range(handlers[h].launched)}) = 2
        /\ Cardinality({tasks[t].vi : t \in Range(handlers[h].launched)}) = 2
        /\ \A t \in Range(handlers[h].launched) : tasks[t].pc = "done"

\* C7: handle_payload never ends on a trade call's exception, it returns
\* only after every trade call it launched has completed, and the outcome it
\* recorded for a call is that call's own result (success, or its own error),
\* whatever the other calls did; a call on the no-op venue is recorded as a
\* success also when a sibling call failed.
C7_OutcomesIndependent ==
    \A h \in HandlerIds :
        /\ handlers[h].pc # "raised"
        /\ \A k \in DOMAIN handlers[h].messages :
              LET t == handlers[h].launched[k]
                  m == handlers[h].messages[k]
              IN  /\ Completed(t)
                  /\ m.task = t
                  /\ m.ok = (tasks[t].pc = "done")
                  /\ m.err = tasks[t].err
                  /\ tasks[t].ex = "noop" => m.ok
        /\ handlers[h].pc = "done" => Len(handlers[h].messages) = Len(handlers[h].launched)

C7_Witness ==
    \E h \in HandlerIds :
        /\ handlers[h].pc = "done"
        /\ \E j, k \in DOMAIN handlers[h].messages :
              /\ ~handlers[h].messages[j].ok
              /\ handlers[h].messages[k].ok
              /\ tasks[handlers[h].launched[j]].pc = "failed"

\* C8: when handle_payload has returned from an event that launched trade
\* calls, exactly one outcome notification has been pushed for each launched
\* call, and nothing else; none is pushed before.
C8_OneNotificationPerCall ==
    \A h \in HandlerIds :
        handlers[h].launched # <<>> =>
            IF handlers[h].pc = "done"
            THEN /\ Len(handlers[h].pushed) = Len(handlers[h].launched)
                 /\ \A t \in Range(handlers[h].launched) :
                       Cardinality({i \in DOMAIN handlers[h].pushed :
                                       /\ handlers[h].pushed[i].kind = "outcome"
                                       /\ handlers[h].pushed[i].task = t}) = 1
            ELSE handlers[h].pushed = <<>>

C8_Witness ==
    \E h \in HandlerIds :
        /\ handlers[h].pc = "done"
        /\ Len(handlers[h].pushed) >= 2
        /\ \E i, j \in DOMAIN handlers[h].pushed :
              handlers[h].pushed[i].ok /\ ~handlers[h].pushed[j].ok

\* what an outcome message tells about the failure: the error text is all
\* that differs between two failed outcomes of one (base, venue) pair
EntryRejections == {ReqError(r) : r \in {x \in OrderResponses : ReqRaises(x)}}

\* the entry order was accepted and a later step failed in one of the ways
\* named: the poll ran out, the position had no size, or the take-profit or
\* stop-loss order was rejected
PartialExecution(t) ==
    /\ tasks[t].ex = "kucoin" /\ tasks[t].pc = "failed" /\ tasks[t].opened
    /\ \/ tasks[t].at \in {"tp", "sl"}
       \/ tasks[t].err \in {"entry price not found for position", "position size not found"}

\* C13: a handle_payload call on an event whose catalogId is not 48 or 161
\* (or is absent) has returned at its first step having called no decision
\* function, pushed the one 'ignored' notification and launched no trade.
C13_IgnoredOutsideFilter ==
    \A h \in Started :
        handlers[h].payload.catalogId \notin {48, 161} =>
            /\ handlers[h].pc = "done"
            /\ ~handlers[h].decided
            /\ handlers[h].pushed = <<Note("ignored")>>
            /\ handlers[h].launched = <<>>
            /\ \A t \in TaskIds : tasks[t].h # h

C13_Witness ==
    \E h \in Started :
        /\ handlers[h].payload.catalogId = NoCat
        /\ handlers[h].payload.title.tickers # <<>>
        /\ handlers[h].pushed = <<Note("ignored")>>
        /\ "noop" \in config.listing.exchanges /\ exchanges[1] = Noop

\* the side the spec gives a decision kind
SideOf(kind) == IF kind = "listing" THEN "buy" ELSE "sell"

\* C14: once handle_payload has passed its launch loop on an event inside
\* the filter, every (base, venue) pair routed for the kind its title decides
\* to has one trade call, with side buy for a listing and sell for a
\* delisting.
C14_SideByKind ==
    \A h \in Started : \A p \in Wanted(h) :
        /\ Cardinality(CallsFor(h, p[1], p[2])) = 1
        /\ \A t \in CallsFor(h, p[1], p[2]) :
              tasks[t].side = SideOf(decide_event_from_title(handlers[h].payload.title).kind)

\* C9: the outcome pushed for a split-order trade that opened the position
\* and then failed is never an outcome that a rejected entry order produces.
C9_PartialDistinct ==
    \A h \in HandlerIds : \A i \in DOMAIN handlers[h].pushed :
        LET m == handlers[h].pushed[i] IN
        (m.kind = "outcome" /\ ~m.ok /\ PartialExecution(m.task))
            => m.err \notin EntryRejections
\* ------------------------------------------------------------------ run_ws
\* a trade launched for an event is not complete
TradeInFlight(h) ==
    /\ handlers[h].pc = "await"
    /\ \E t \in Range(handlers[h].launched) : ~Completed(t)

\* C10: while run_ws is connected it can take the next frame whatever the
\* handle_payload tasks dispatched before and their trades are doing.
C10_FeedNeverWaits ==
    (feed.pc = "listen" /\ FreeHandlers # {} /\ feed.reads < MaxFrames) => ENABLED FeedRecv

C10_Witness ==
    \E g, h \in HandlerIds :
        /\ g < h
        /\ TradeInFlight(g)
        /\ handlers[h].pc = "start"
        /\ feed.pc = "listen"

\* a frame that is no event envelope: not JSON, JSON that is no object, or a
\* DATA object whose data member is missing or does not parse
Undecodable(raw) ==
    \/ raw.json \in {"invalid", "list"}
    \/ (raw.json = "object" /\ raw.type = "DATA" /\ raw.data \in {"missing", "invalid"})

\* C11: reading an undecodable frame while connected creates no
\* handle_payload task and no trade, and leaves run_ws in its async for on
\* the same connection.
C11_BadFrameDropped ==
    [][ (feed'.reads = feed.reads + 1 /\ Undecodable(feed'.last))
        => (handlers' = handlers /\ tasks' = tasks /\ feed'.pc = "listen") ]_vars

C11_Witness ==
    /\ Undecodable(feed.last) /\ feed.pc = "listen" /\ feed.reads = 1
    /\ \A h \in HandlerIds : handlers[h].pc = "idle"

\* C12: run_ws is always at its connect, its async for or its sleep; it
\* leaves the connect or the async for only for the sleep (or, from the
\* connect, for the async for), leaves the sleep only for a new connect, and
\* every sleep is followed by a connection attempt.
C12_FeedNeverStops ==
    /\ [](feed.pc \in {"connect", "listen", "sleep"})
    /\ [][ /\ (feed.pc = "listen" /\ feed'.pc # "listen") => feed'.pc = "sleep"
           /\ (feed.pc = "connect" /\ feed'.pc # "connect") => feed'.pc \in {"listen", "sleep"}
           /\ (feed.pc = "sleep" /\ feed'.pc # "sleep") => feed'.pc = "connect" ]_vars
    /\ [](feed.pc = "sleep" => <>(feed.pc = "connect"))

C12_Witness == feed.pc = "connect" /\ feed.reads >= 1

C15_RoundingLaw ==
    quote.pc = "out" =>
        IF quote.side = "buy"
        THEN /\ quote.tp >= (quote.ref + quote.gap * quote.tick) * quote.den
             /\ quote.sl <= (quote.ref - quote.gap * quote.tick) * quote.den
        ELSE /\ quote.tp <= (quote.ref - quote.gap * quote.tick) * quote.den
             /\ quote.sl >= (quote.ref + quote.gap * quote.tick) * quote.den

\* --------------------------------------------------------------- the watcher
\* C16: whatever _ensure_ws calls were made, at most one order-update
\* listener is live, and one is live as soon as _ensure_ws was called.
C16_OneListener ==
    /\ ws.live <= 1
    /\ ws.calls > 0 => (ws.live = 1 /\ ws.pc # "none")
    /\ ws.calls = 0 => (ws.live = 0 /\ ws.pc = "none")

C16_Witness ==
    /\ ws.calls = EnsureCap /\ ws.live = 1 /\ ws.pc = "listen"
    /\ \E t \in KcTrades : tasks[t].pc = "done"

\* C17: the listener never ends, and it starts a new run of its loop (a new
\* URL fetch) only after the back-off sleep.
C17_WatcherBacksOff ==
    [][ /\ ws'.pc # "finished"
        /\ (ws.pc \notin {"none", "geturl"} /\ ws'.pc = "geturl") => ws.pc = "sleep" ]_vars

C19_CompletionOrder ==
    \A h \in HandlerIds : \A i, j \in DOMAIN handlers[h].pushed :
        (i < j /\ handlers[h].pushed[i].kind = "outcome"
            /\ tasks[handlers[h].pushed[i].task].ex = "kucoin")
            => tasks[handlers[h].pushed[i].task].fin < tasks[handlers[h].pushed[j].task].fin

\* ------------------------------------------------------- the split-order call
\* the protective orders of trade call t
OrdersOf(t) == {<<t, "tp">>, <<t, "sl">>}

\* C21: a rejected entry order ends the trade call with the rejection as its
\* error: the step that takes the rejection queries no position, submits no
\* protective order, starts no listener and records no pair, and the call
\* takes no further step.
C21_EntryFailureEndsCall ==
    [][ \A t \in TaskIds :
          /\ (tasks[t].pc = "entry" /\ tasks'[t].pc \notin {"entry", "poll"}) =>
                /\ tasks'[t].pc = "failed" /\ tasks'[t].at = "entry"
                /\ tasks'[t].err \in {ReqError(r) : r \in {x \in KcResponses : ReqRaises(x)}}
                /\ ~tasks'[t].opened /\ tasks'[t].polls = 0 /\ ~tasks'[t].paired
                /\ ws' = ws /\ placed' = placed /\ order_pairs' = order_pairs
          /\ tasks[t].at = "entry" =>
                /\ tasks'[t] = tasks[t]
                /\ OrdersOf(t) \cap placed' = {}
                /\ \A o \in OrdersOf(t) : order_pairs'[o] = NoId ]_vars

C21_Witness ==
    \E t \in KcTrades :
        /\ tasks[t].at = "entry" /\ tasks[t].pc = "failed"
        /\ ws.pc = "none" /\ placed = {}

\* ----------------------------------------------------- the bracket-order call
\* C22: the first order submitted is sized by notional; a second one, sized
\* in lots, is submitted only after the venue rejected the first for a
\* quantity or parameter reason; after a rejection for any other reason the
\* call has failed with one submission made; no call makes more than two.
C22_FallbackOnlyOnQuantity ==
    /\ Len(bracket.sent) <= 2
    /\ Len(bracket.sent) >= 1 => bracket.sent[1].by = "valueQty"
    /\ Len(bracket.sent) = 2 =>
          /\ bracket.sent[2].by = "size"
          /\ bnc_req(bracket.first) # "return"
          /\ bracket.first.why = "quantity"
    /\ (bnc_req(bracket.first) # "return" /\ bracket.first.why \notin {"none", "quantity"}) =>
          /\ bracket.pc = "failed" /\ bracket.err = "RuntimeError"
          /\ Len(bracket.sent) = 1

\* the first submission was rejected and the call went into the lot-size
\* fallback
InFallback == bnc_req(bracket.first) # "return" /\ IsQuantityError(bracket.first)

SizingErrors == {"Contract multiplier missing", "lots below minimum"}

ReportsFailure(r) == ~Is2xx(r) \/ (r.code # "none" /\ r.code # Sentinel)

\* C23: a REST call that got a response reporting a failure raises: it never
\* returns the response to the trade call as a result.
C23_FailureRaises ==
    (rest.pc \in {"raised", "returned"} /\ ReportsFailure(rest.response))
        => rest.pc = "raised"

\* C24: a REST call answered with a rate-limit response sleeps the reset
\* interval the server suggested before it raises, and the request was sent
\* once.
C24_RateLimitWaits ==
    /\ rest.sends <= 1
    /\ (rest.response.status = 429 /\ rest.pc \in {"raised", "returned"}) =>
          /\ rest.pc = "raised"
          /\ rest.waited = IF rest.response.reset = 0 THEN DefaultResetMs
                           ELSE rest.response.reset

\* ------------------------------------------------------------------ startup
\* C25: the feed loop is entered only with every venue the routing table
\* names known and present in the venue list handed to it.
C25_ConfigErrorsFatal ==
    boot.pc = "feed" =>
        /\ RoutedNames(boot.env) \subseteq KnownVenues
        /\ RoutedNames(boot.env) \subseteq boot.venues

\* ------------------------------------------------------- the split-order call
PollExhausted == "entry price not found for position"

\* C29: a trade call makes at most PollAttempts position queries and makes
\* none after the one that reported an entry price; a call whose queries all
\* reported none has failed with "entry price not found", with no protective
\* order submitted and no pair recorded.
C29_PollBounded ==
    /\ [](\A t \in TaskIds :
            /\ tasks[t].polls <= PollAttempts
            /\ tasks[t].pc = "poll" => tasks[t].polls < PollAttempts
            /\ tasks[t].err = PollExhausted =>
                  /\ tasks[t].pc = "failed" /\ tasks[t].at = "poll"
                  /\ tasks[t].polls = PollAttempts
                  /\ OrdersOf(t) \cap placed = {}
                  /\ tasks[t].tp_id = NoId /\ ~tasks[t].paired
                  /\ \A o \in OrdersOf(t) : order_pairs[o] = NoId)
    /\ [][ \A t \in TaskIds :
             tasks[t].pc \in {"tp", "sl", "done", "failed"}
                => tasks'[t].polls = tasks[t].polls ]_vars

C29_Witness ==
    \E t \in KcTrades :
        /\ tasks[t].err = PollExhausted /\ tasks[t].polls = PollAttempts
        /\ tasks[t].opened

\* ------------------------------------------------------------ title decision
\* the title carries the delist trigger / a listing trigger
DelistTrigger(title)  == Contains(Lower(title), <<"w", "i", "l", "l", " ", "d", "e", "l", "i", "s", "t">>) \/ HasDelistToken(Lower(title))
ListingTrigger(title) == ~DelistTrigger(title) /\ HasListingPhrase(Lower(title))

\* C26: a title without a "delist" token and without a listing phrase, the
\* empty title included, is decided as kind none with no bases; and a title
\* whose trigger matched but whose extraction found no base is decided as
\* kind none.
C26_NoTriggerNone ==
    dec.pc = "out" =>
        /\ (~HasDelistToken(Lower(dec.title)) /\ ~HasListingPhrase(Lower(dec.title)))
              => (dec.kind = "none" /\ dec.bases = <<>>)
        /\ (DelistTrigger(dec.title) /\ bases_from_delist(dec.title) = {})
              => (dec.kind = "none" /\ dec.bases = <<>>)
        /\ (ListingTrigger(dec.title)
              /\ bases_from_parentheses(dec.title) \cup bases_from_usdt_pairs(dec.title) = {})
              => (dec.kind = "none" /\ dec.bases = <<>>)
        /\ dec.bases = <<>> => dec.kind = "none"

C26_Witness ==
    /\ dec.pc = "out" /\ dec.kind = "none" /\ dec.bases = <<>>
    /\ ListingTrigger(dec.title)
    /\ Contains(dec.title, <<" ", "T">>)

\* tickers a title of the claimed forms can name
ClaimBases == { <<"B", "A", "R">>, <<"B", "A", "Z">>, <<"B", "A", "R", "U", "S", "D", "T">> }

\* the titles "... will delist B1, B2 on <date>"
DelistForm(b1, b2) ==
    { Join(Glue(p \o t \o <<b1, <<",">>, b2>> \o <<<<"o", "n">>, <<"2", "0", "2", "5", "-", "0", "1", "-", "0", "1">>>>)) :
        p \in Prefixes, t \in { <<<<"w", "i", "l", "l">>, <<"d", "e", "l", "i", "s", "t">>>>, <<<<"W", "i", "l", "l">>, <<"D", "e", "l", "i", "s", "t">>>> } }

\* C27: a title "... will delist B1, B2 on <date>" is decided as kind
\* delisting with exactly the bases B1 and B2, whatever precedes the phrase.
C27_DelistBases ==
    dec.pc = "out" =>
        \A b1, b2 \in ClaimBases :
            dec.title \in DelistForm(b1, b2)
                => (dec.kind = "delisting" /\ Range(dec.bases) = {b1, b2})

\* the title contains "(X)" / the token "XUSDT"
HasParenthesized(title, x) == Contains(title, <<"(">> \o x \o <<")">>)

HasUsdtToken(title, x) ==
    \E i \in 1..Len(title) :
        /\ OccursAt(title, x \o <<"U", "S", "D", "T">>, i)
        /\ (i = 1 \/ ~IsWordChar(title[i - 1]))
        /\ (i + Len(x) + 4 > Len(title) \/ ~IsWordChar(title[i + Len(x) + 4]))

ClaimTickers == { <<"F", "O", "O">>, <<"B", "A", "R">>, <<"B", "A", "Z">> }

\* C28: a title with a listing phrase, no delist trigger and "(X)" or a
\* token "XUSDT" is decided as kind listing with X among the bases; "Binance
\* Will List Foo (FOO)" is decided as listing, [FOO].
C28_ListingBases ==
    dec.pc = "out" =>
        /\ \A x \in ClaimTickers :
              (ListingTrigger(dec.title)
                 /\ (HasParenthesized(dec.title, x) \/ HasUsdtToken(dec.title, x)))
                 => (dec.kind = "listing" /\ x \in Range(dec.bases))
        /\ dec.title = Join(<<<<"B", "i", "n", "a", "n", "c", "e">>, <<"W", "i", "l", "l">>, <<"L", "i", "s", "t">>, <<"F", "o", "o">>, <<"(", "F", "O", "O", ")">>>>)
              => (dec.kind = "listing" /\ dec.bases = << <<"F", "O", "O">> >>)

\* ------------------------------------------------------- protective prices
\* the tick in the unit of the submitted prices, and the raw levels in
\* hundredths of that unit
QuoteTick == quote.tick * quote.den
RawTp == calc_raw_tp_sl(quote.ref, quote.side, quote.tp_pct, quote.sl_pct)[1] * quote.den
RawSl == calc_raw_tp_sl(quote.ref, quote.side, quote.tp_pct, quote.sl_pct)[2] * quote.den

\* x is the smallest multiple of the tick at or above the raw level / the
\* largest at or below it
SmallestAbove(x, raw) == x % QuoteTick = 0 /\ 100 * x >= raw /\ 100 * (x - QuoteTick) < raw
LargestBelow(x, raw)  == x % QuoteTick = 0 /\ 100 * x <= raw /\ 100 * (x + QuoteTick) > raw

\* C31: the two prices an adapter computed are multiples of the tick, rounded
\* in the protective direction: for a long TP up and SL down from the raw
\* level to the nearest multiple, for a short TP down and SL up.
C31_TickRounding ==
    quote.pc = "out" =>
        IF quote.side = "buy"
        THEN SmallestAbove(quote.tp, RawTp) /\ LargestBelow(quote.sl, RawSl)
        ELSE LargestBelow(quote.tp, RawTp) /\ SmallestAbove(quote.sl, RawSl)

\* --------------------------------------------- order of the protective steps
\* C32: a trade call submits its take-profit order in a step that leaves a
\* watcher task in place, submits its stop-loss order only from the await of
\* an accepted take-profit order, and no order is added at the venue while
\* the adapter has no watcher task.
C32_WatcherBeforeOrders ==
    [][ \A t \in TaskIds :
          /\ (tasks[t].pc # "tp" /\ tasks'[t].pc = "tp")
                => tasks[t].pc = "poll" /\ ws'.pc \notin {"none", "finished"} /\ ws'.calls >= 1
          /\ (tasks[t].pc # "sl" /\ tasks'[t].pc = "sl")
                => /\ tasks[t].pc = "tp"
                   /\ ~ReqRaises(tasks[t].inflight)
                   /\ ws.pc \notin {"none", "finished"}
          /\ placed' # placed => ws'.pc \notin {"none", "finished"}
          /\ <<t, "sl">> \in placed' => <<t, "tp">> \in placed'
      ]_vars

\* both protective orders are at the venue and the watcher runs
C32_Witness ==
    \E t \in TaskIds : <<t, "tp">> \in placed /\ <<t, "sl">> \in placed /\ ws.pc # "none"

\* ------------------------------------------------------ recording the pair
\* the orders that are keys of the mapping after the step and were not before
NewKeys == {o \in OrderIds : order_pairs[o] = NoId /\ order_pairs'[o] # NoId}

\* C33: a key enters the mapping only in the step in which a trade call
\* receives the stop-loss reply, both protective orders having been accepted
\* with an order id, and that step enters both directions; a call whose
\* stop-loss submission fails ends failed, leaves the mapping as it was and
\* leaves its take-profit order at the venue without a sibling.
C33_PairRecordedWhole ==
    [][ /\ NewKeys # {} =>
              \E t \in TaskIds :
                 /\ tasks[t].pc = "sl" /\ tasks'[t].pc = "done"
                 /\ tasks[t].tp_id = <<t, "tp">> /\ tasks[t].inflight.hasId
                 /\ {<<t, "tp">>, <<t, "sl">>} \subseteq placed
                 /\ NewKeys = {<<t, "tp">>, <<t, "sl">>}
                 /\ order_pairs'[<<t, "tp">>] = <<t, "sl">>
                 /\ order_pairs'[<<t, "sl">>] = <<t, "tp">>
        /\ \A t \in TaskIds :
              (tasks[t].pc = "sl" /\ ReqRaises(tasks[t].inflight) /\ tasks'[t] # tasks[t])
                 => /\ tasks'[t].pc = "failed"
                    /\ order_pairs' = order_pairs
                    /\ <<t, "tp">> \in placed'
                    /\ order_pairs'[<<t, "tp">>] = NoId
      ]_vars

\* a call returned with its pair recorded in both directions
C33_Witness ==
    \E t \in TaskIds : /\ tasks[t].pc = "done" /\ tasks[t].paired
                       /\ order_pairs[<<t, "tp">>] = <<t, "sl">>
                       /\ order_pairs[<<t, "sl">>] = <<t, "tp">>

\* ------------------------------------------------ notifications per event
\* C34: a handle_payload call that has returned has pushed at least one
\* notification, whatever payload, routing table and venue list it was given.
C34_AlwaysNotified ==
    \A h \in HandlerIds : handlers[h].pc = "done" => Len(handlers[h].pushed) >= 1

====
